---- MODULE Spec2Model ----
(***************************************************************************)
(* A model of the lox_rust bytecode interpreter: the scanner (scanner.rs), *)
(* the single-pass Pratt compiler (compile.rs), the heap (object.rs), the  *)
(* chunk (chunk.rs) and the virtual machine (vm.rs), driven as the REPL of *)
(* main.rs drives them: successive interpret calls on one VM.              *)
(*                                                                         *)
(* A source text is a sequence of one-character strings.  Offsets are      *)
(* 0-based as in the Rust code; a sequence s is indexed as s[i + 1].       *)
(* A Rust panic (index out of bounds, unwrap of None, slice out of range)  *)
(* is a defined outcome: the thread unwinds and the VM is gone.  The model *)
(* records it as pc = "panicked".                                          *)
(* Source lines of instructions are kept by the scanner but not stored in  *)
(* the chunk: they only decorate the runtime error report.                 *)
(***************************************************************************)
EXTENDS Integers, Sequences, FiniteSets, TLC

\* Bind(e, LAMBDA x : body) is body with x standing for the value of e:
\* a Rust `let x = e;` followed by body.
Bind(e, body(_)) == body(e)

\* ------------------------------------------------------------------------
\* Characters
\* ------------------------------------------------------------------------

NUL == "NUL"

Digits == {"0", "1", "2", "3", "4", "5", "6", "7", "8", "9"}

Letters ==
  {"a", "b", "c", "d", "e", "f", "g", "h", "i", "j", "k", "l", "m",
   "n", "o", "p", "q", "r", "s", "t", "u", "v", "w", "x", "y", "z",
   "A", "B", "X", "Y", "Z"}

\* U+00E9, a letter outside ASCII: one char, two bytes in UTF-8.  It is not
\* in Letters, which stands for the 'a'..='z' | 'A'..='Z' of scan_token.
EAcute == "e-acute"

is_digit(c) == c \in Digits

\* char::is_alphanumeric follows Unicode.
is_alphanumeric(c) == c \in Letters \cup Digits \cup {EAcute}

TwoByteChars == {EAcute}

\* char::len_utf8
len_utf8(c) == IF c \in TwoByteChars THEN 2 ELSE 1

\* String::len: the length in bytes, not in chars.
String_len(source) ==
  Len(source) + Cardinality({i \in 1..Len(source) : source[i] \in TwoByteChars})

\* source.chars().nth(n).unwrap(): None, and a panic, past the last char.
nth(source, n) == IF n < Len(source) THEN source[n + 1] ELSE "PANIC"

\* The bytes of the text: an ASCII char is its own byte, a two-byte char is
\* its lead byte (written as the char) and a continuation byte.
RECURSIVE as_bytes(_)
as_bytes(text) ==
  IF Len(text) = 0 THEN <<>>
  ELSE IF Len(text) = 1
    THEN (IF len_utf8(text[1]) = 2 THEN <<text[1], "CONT">> ELSE text)
  ELSE as_bytes(SubSeq(text, 1, Len(text) \div 2))
       \o as_bytes(SubSeq(text, (Len(text) \div 2) + 1, Len(text)))

is_char_boundary(bytes, i) ==
  i = Len(bytes) \/ (i < Len(bytes) /\ bytes[i + 1] # "CONT")

PanicSlice == <<"PANIC">>

\* &source[from..to]: a slice by byte offsets; it panics past the end of
\* the text and inside a char.
str_slice(source, from, to) ==
  Bind(as_bytes(source), LAMBDA bytes :
    IF to > Len(bytes) \/ ~is_char_boundary(bytes, from)
       \/ ~is_char_boundary(bytes, to)
    THEN PanicSlice
    ELSE SubSeq(bytes, from + 1, to))

\* ------------------------------------------------------------------------
\* Scanner (scanner.rs)
\* ------------------------------------------------------------------------

Scanner_new == [start |-> 0, current |-> 0, line |-> 1, panicked |-> FALSE]

\* self.current >= source.len().  String_len is Len at least, so the first
\* conjunct decides every offset inside the text.
is_at_end(sc, source) ==
  sc.current >= Len(source) /\ sc.current >= String_len(source)

\* The char advance returns is read where it is used.  Its unwrap is never
\* the first to fail: every call follows a peek of the same offset.
Scanner_advance(sc) == [sc EXCEPT !.current = @ + 1]

\* "PANIC" when current is before the byte length but past the last char.
Scanner_peek(sc, source) ==
  IF is_at_end(sc, source) THEN NUL ELSE nth(source, sc.current)

\* chars().nth(current + 1).unwrap(): None when current is the last offset.
peek_next(sc, source) ==
  IF is_at_end(sc, source) THEN NUL ELSE nth(source, sc.current + 1)

make_token(sc, token_type) ==
  [token_type |-> token_type, start |-> sc.start,
   length |-> sc.current - sc.start, line |-> sc.line]

UnexpectedCharacterLen == 21
UnterminatedStringLen == 20

error_token(sc, message_len) ==
  [token_type |-> "Error", start |-> 0, length |-> message_len, line |-> sc.line]

RECURSIVE skip_comment(_, _)
skip_comment(sc, source) ==
  IF Scanner_peek(sc, source) = "PANIC" THEN [sc EXCEPT !.panicked = TRUE]
  ELSE IF Scanner_peek(sc, source) # "\n" /\ ~is_at_end(sc, source)
  THEN skip_comment(Scanner_advance(sc), source)
  ELSE sc

RECURSIVE skip_whitespace(_, _)
skip_whitespace(sc, source) ==
  LET c == Scanner_peek(sc, source) IN
  IF sc.panicked THEN sc
  ELSE IF c = "PANIC" THEN [sc EXCEPT !.panicked = TRUE]
  ELSE IF c \in {" ", "\r", "\t"} THEN skip_whitespace(Scanner_advance(sc), source)
  ELSE IF c = "\n"
    THEN skip_whitespace(Scanner_advance([sc EXCEPT !.line = @ + 1]), source)
  ELSE IF c = "/"
    THEN IF peek_next(sc, source) = "PANIC" THEN [sc EXCEPT !.panicked = TRUE]
         ELSE IF peek_next(sc, source) = "/"
           THEN skip_whitespace(skip_comment(sc, source), source)
         ELSE sc
  ELSE sc

\* matched tells the caller to advance; panicked is the unwrap of None.
match_next(sc, source, expected) ==
  IF is_at_end(sc, source) THEN [matched |-> FALSE, panicked |-> FALSE]
  ELSE IF nth(source, sc.current) = "PANIC"
    THEN [matched |-> FALSE, panicked |-> TRUE]
  ELSE [matched |-> nth(source, sc.current) = expected, panicked |-> FALSE]

\* &source[self.start + start .. self.start + start + length] == rest;
\* the slice panics when it reaches past the end of the source.
check_keyword(sc, source, start, length, rest, token_type) ==
  Bind(str_slice(source, sc.start + start, sc.start + start + length),
       LAMBDA some_chars :
    IF some_chars = PanicSlice THEN "PANIC"
    ELSE IF some_chars = rest THEN token_type
    ELSE "Identifier")

identifier_type(sc, source) ==
  LET c == nth(source, sc.start)
      second == nth(source, sc.start + 1)
  IN
  CASE c = "a" -> check_keyword(sc, source, 1, 2, <<"n", "d">>, "And")
    [] c = "c" -> check_keyword(sc, source, 1, 4, <<"l", "a", "s", "s">>, "Class")
    [] c = "e" -> check_keyword(sc, source, 1, 3, <<"l", "s", "e">>, "Else")
    [] c = "f" ->
         CASE second = "PANIC" -> "PANIC"
           [] second = "a" -> check_keyword(sc, source, 2, 3, <<"l", "s", "e">>, "False")
           [] second = "o" -> check_keyword(sc, source, 2, 1, <<"r">>, "For")
           [] second = "u" -> check_keyword(sc, source, 2, 1, <<"n">>, "Fun")
           [] OTHER -> "Identifier"
    [] c = "i" -> check_keyword(sc, source, 1, 1, <<"f">>, "If")
    [] c = "n" -> check_keyword(sc, source, 1, 2, <<"i", "l">>, "Nil")
    [] c = "o" -> check_keyword(sc, source, 1, 1, <<"r">>, "Or")
    [] c = "p" -> check_keyword(sc, source, 1, 4, <<"r", "i", "n", "t">>, "Print")
    [] c = "r" -> check_keyword(sc, source, 1, 5, <<"e", "t", "u", "r", "n">>, "Return")
    [] c = "s" -> check_keyword(sc, source, 1, 4, <<"u", "p", "e", "r">>, "Super")
    [] c = "t" ->
         CASE second = "PANIC" -> "PANIC"
           [] second = "h" -> check_keyword(sc, source, 2, 2, <<"i", "s">>, "This")
           [] second = "r" -> check_keyword(sc, source, 2, 2, <<"u", "e">>, "True")
           [] OTHER -> "Identifier"
    [] c = "v" -> check_keyword(sc, source, 1, 2, <<"a", "r">>, "Var")
    [] c = "w" -> check_keyword(sc, source, 1, 4, <<"h", "i", "l", "e">>, "While")
    [] OTHER -> "Identifier"

RECURSIVE string_scan(_, _)
string_scan(sc, source) ==
  IF Scanner_peek(sc, source) = "PANIC" THEN [sc EXCEPT !.panicked = TRUE]
  ELSE IF Scanner_peek(sc, source) # "\"" /\ ~is_at_end(sc, source)
  THEN string_scan(
         Scanner_advance(IF Scanner_peek(sc, source) = "\n"
                         THEN [sc EXCEPT !.line = @ + 1] ELSE sc), source)
  ELSE sc

string_token(sc, source) ==
  Bind(string_scan(sc, source), LAMBDA s1 :
    IF s1.panicked THEN [token |-> make_token(s1, "String"), scanner |-> s1]
    ELSE IF is_at_end(s1, source)
    THEN [token |-> error_token(s1, UnterminatedStringLen), scanner |-> s1]
    ELSE [token |-> make_token(Scanner_advance(s1), "String"),
          scanner |-> Scanner_advance(s1)])

RECURSIVE digits_scan(_, _)
digits_scan(sc, source) ==
  IF Scanner_peek(sc, source) = "PANIC" THEN [sc EXCEPT !.panicked = TRUE]
  ELSE IF is_digit(Scanner_peek(sc, source))
  THEN digits_scan(Scanner_advance(sc), source)
  ELSE sc

number_token(sc, source) ==
  Bind(digits_scan(sc, source), LAMBDA s1 :
    IF s1.panicked THEN [token |-> make_token(s1, "Number"), scanner |-> s1]
    ELSE IF Scanner_peek(s1, source) = "."
    THEN IF peek_next(s1, source) = "PANIC"
         THEN [token |-> make_token(s1, "Number"),
               scanner |-> [s1 EXCEPT !.panicked = TRUE]]
         ELSE IF is_digit(peek_next(s1, source))
           THEN Bind(digits_scan(Scanner_advance(s1), source), LAMBDA s2 :
                  [token |-> make_token(s2, "Number"), scanner |-> s2])
         ELSE [token |-> make_token(s1, "Number"), scanner |-> s1]
    ELSE [token |-> make_token(s1, "Number"), scanner |-> s1])

RECURSIVE alnum_scan(_, _)
alnum_scan(sc, source) ==
  IF Scanner_peek(sc, source) = "PANIC" THEN [sc EXCEPT !.panicked = TRUE]
  ELSE IF is_alphanumeric(Scanner_peek(sc, source))
  THEN alnum_scan(Scanner_advance(sc), source)
  ELSE sc

SingleCharTokens ==
  [c \in {"(", ")", "{", "}", ";", ",", ".", "-", "+", "/", "*"} |->
     CASE c = "(" -> "LeftParen" [] c = ")" -> "RightParen"
       [] c = "{" -> "LeftBrace" [] c = "}" -> "RightBrace"
       [] c = ";" -> "Semicolon" [] c = "," -> "Comma"
       [] c = "." -> "Dot" [] c = "-" -> "Minus"
       [] c = "+" -> "Plus" [] c = "/" -> "Slash"
       [] c = "*" -> "Star"]

TwoCharTokens ==
  [c \in {"!", "=", "<", ">"} |->
     CASE c = "!" -> <<"Bang", "BangEqual">>
       [] c = "=" -> <<"Equal", "EqualEqual">>
       [] c = "<" -> <<"Less", "LessEqual">>
       [] c = ">" -> <<"Greater", "GreaterEqual">>]

\* Returns the token and the scanner after it; scanner.panicked is set when
\* the scan hit a Rust panic (the token is then meaningless).
scan_token(sc0, source) ==
  Bind(skip_whitespace(sc0, source), LAMBDA sw :
  Bind([sw EXCEPT !.start = sw.current], LAMBDA s0 :
    IF sw.panicked THEN [token |-> make_token(s0, "EOF"), scanner |-> s0]
    ELSE IF is_at_end(s0, source)
      THEN [token |-> make_token(s0, "EOF"), scanner |-> s0]
    ELSE
      Bind(nth(source, s0.current), LAMBDA c :
      Bind(Scanner_advance(s0), LAMBDA s1 :
        IF c \in DOMAIN SingleCharTokens
          THEN [token |-> make_token(s1, SingleCharTokens[c]), scanner |-> s1]
        ELSE IF c \in DOMAIN TwoCharTokens
          THEN Bind(match_next(s1, source, "="), LAMBDA m :
                 IF m.panicked
                 THEN [token |-> make_token(s1, TwoCharTokens[c][1]),
                       scanner |-> [s1 EXCEPT !.panicked = TRUE]]
                 ELSE IF m.matched
                 THEN [token |-> make_token(Scanner_advance(s1), TwoCharTokens[c][2]),
                       scanner |-> Scanner_advance(s1)]
                 ELSE [token |-> make_token(s1, TwoCharTokens[c][1]), scanner |-> s1])
        ELSE IF c = "\"" THEN string_token(s1, source)
        ELSE IF is_digit(c) THEN number_token(s1, source)
        ELSE IF c \in Letters
          THEN Bind(alnum_scan(s1, source), LAMBDA s2 :
               Bind(IF s2.panicked THEN "PANIC" ELSE identifier_type(s2, source),
                    LAMBDA ty :
                 IF ty = "PANIC"
                 THEN [token |-> make_token(s2, "Identifier"),
                       scanner |-> [s2 EXCEPT !.panicked = TRUE]]
                 ELSE [token |-> make_token(s2, ty), scanner |-> s2]))
        ELSE [token |-> error_token(s1, UnexpectedCharacterLen), scanner |-> s1]))))

\* source.chars().skip(start).take(length): never panics, clips at the end.
lexeme(source, start, length) ==
  SubSeq(source, start + 1,
         IF start + length > Len(source) THEN Len(source) ELSE start + length)

\* ------------------------------------------------------------------------
\* Values (value.rs).  A Number is an f64; the model keeps it as a fraction
\* in lowest terms, den = 0 standing for inf (num 1), -inf (num -1) and NaN
\* (num 0).  Sums, differences and products of integers are exact in both;
\* -0.0 is not told apart from 0.0.
\* ------------------------------------------------------------------------

Abs(n) == IF n < 0 THEN -n ELSE n

Sign(n) == IF n < 0 THEN -1 ELSE IF n > 0 THEN 1 ELSE 0

RECURSIVE GCD(_, _)
GCD(a, b) == IF b = 0 THEN a ELSE GCD(b, a % b)

Norm(num, den) ==
  IF den = 0 THEN [num |-> Sign(num), den |-> 0]
  ELSE LET g == GCD(Abs(num), Abs(den)) IN
       [num |-> (Sign(den) * num) \div g, den |-> Abs(den) \div g]

IsNaN(x) == x.den = 0 /\ x.num = 0

f64_neg(x) == [num |-> -x.num, den |-> x.den]

f64_add(x, y) ==
  IF x.den = 0 /\ y.den = 0
  THEN (IF x.num = y.num THEN x ELSE [num |-> 0, den |-> 0])
  ELSE Norm(x.num * y.den + y.num * x.den, x.den * y.den)

f64_sub(x, y) == f64_add(x, f64_neg(y))

f64_mul(x, y) == Norm(x.num * y.num, x.den * y.den)

f64_div(x, y) ==
  IF x.den = 0 /\ y.den # 0 /\ y.num < 0 THEN f64_neg(x)
  ELSE Norm(x.num * y.den, x.den * y.num)

f64_lt(x, y) ==
  IF IsNaN(x) \/ IsNaN(y) THEN FALSE
  ELSE IF x.den = 0 /\ y.den = 0 THEN x.num < y.num
  ELSE x.num * y.den < y.num * x.den

f64_gt(x, y) == f64_lt(y, x)

f64_eq(x, y) == ~IsNaN(x) /\ ~IsNaN(y) /\ x = y

Number(n) == [t |-> "Number", n |-> n]
Bool(b) == [t |-> "Bool", b |-> b]
Nil == [t |-> "Nil"]
Obj(h) == [t |-> "Obj", h |-> h]

DigitChar == <<"0", "1", "2", "3", "4", "5", "6", "7", "8", "9">>

DigitVal(c) == CHOOSE d \in 0..9 : DigitChar[d + 1] = c

RECURSIVE chars_to_nat(_)
chars_to_nat(s) ==
  IF s = <<>> THEN 0
  ELSE chars_to_nat(SubSeq(s, 1, Len(s) - 1)) * 10 + DigitVal(s[Len(s)])

RECURSIVE Pow10(_)
Pow10(k) == IF k = 0 THEN 1 ELSE 10 * Pow10(k - 1)

\* str::parse::<f64> on a Number lexeme: digits, optionally '.' and digits.
parse_f64(s) ==
  LET dots == {i \in 1..Len(s) : s[i] = "."} IN
  IF dots = {} THEN [num |-> chars_to_nat(s), den |-> 1]
  ELSE LET i == CHOOSE j \in dots : TRUE IN
       Norm(chars_to_nat(SubSeq(s, 1, i - 1) \o SubSeq(s, i + 1, Len(s))),
            Pow10(Len(s) - i))

RECURSIVE nat_to_chars(_)
nat_to_chars(n) ==
  IF n < 10 THEN <<DigitChar[n + 1]>>
  ELSE nat_to_chars(n \div 10) \o <<DigitChar[(n % 10) + 1]>>

MaxFracDigits == 17

RECURSIVE frac_chars(_, _, _)
frac_chars(r, den, k) ==
  IF r = 0 \/ k = 0 THEN <<>>
  ELSE <<DigitChar[((r * 10) \div den) + 1]>> \o frac_chars((r * 10) % den, den, k - 1)

\* f64::to_string / format!("{}", num): exact for fractions with a finite
\* decimal expansion, cut after MaxFracDigits digits otherwise.
to_string(x) ==
  IF x.den = 0
  THEN (IF x.num = 0 THEN <<"N", "a", "N">>
        ELSE IF x.num > 0 THEN <<"i", "n", "f">> ELSE <<"-", "i", "n", "f">>)
  ELSE (IF x.num < 0 THEN <<"-">> ELSE <<>>)
       \o nat_to_chars(Abs(x.num) \div x.den)
       \o (IF Abs(x.num) % x.den = 0 THEN <<>>
           ELSE <<".">> \o frac_chars(Abs(x.num) % x.den, x.den, MaxFracDigits))

\* ------------------------------------------------------------------------
\* Heap (object.rs).  Only HeapData::String is ever allocated by the
\* compiler and the VM; data is the text.
\* ------------------------------------------------------------------------

Heap_new == [id_counter |-> 0, values |-> [h \in {} |-> 0]]

\* Mutant: the smallest handle without an entry is handed out again.
allocate_reusing(heap, data) ==
  LET id == CHOOSE h \in 0..heap.id_counter :
              /\ h \notin DOMAIN heap.values
              /\ \A g \in 0..heap.id_counter : g \notin DOMAIN heap.values => h <= g
  IN [id |-> id,
      heap |-> [id_counter |-> heap.id_counter + 1,
                values |-> (id :> [marked |-> FALSE, data |-> data]) @@ heap.values]]

allocate(heap, data) ==
  [id |-> heap.id_counter,
   heap |-> [id_counter |-> heap.id_counter + 1,
             values |-> (heap.id_counter :> [marked |-> FALSE, data |-> data])
                        @@ heap.values]]

free(heap, id) ==
  [heap EXCEPT !.values = [h \in (DOMAIN heap.values) \ {id} |-> heap.values[h]]]

\* Heap::mark: sets the flag of the entry, nothing when there is none.
mark(heap, id) ==
  IF id \in DOMAIN heap.values THEN [heap EXCEPT !.values[id].marked = TRUE]
  ELSE heap

\* Heap::get: Some(data) when the handle has an entry, None otherwise.
has(heap, id) == id \in DOMAIN heap.values

get(heap, id) == heap.values[id].data

\* ------------------------------------------------------------------------
\* Chunk (chunk.rs): code is a sequence of Ops, constants a sequence of
\* Values; an index i of the Rust vectors is position i + 1 here.
\* ------------------------------------------------------------------------

Op0(name) == [op |-> name]
Op1(name, a) == [op |-> name, a |-> a]

\* ------------------------------------------------------------------------
\* Compiler (compile.rs).  The parser state p carries the Parser fields, the
\* Compiler (locals, scope_depth), the scanner, the chunk being written
\* (code, constants) and the heap lent by the VM; errors is what error_at
\* wrote to stderr.  p.panicked records a Rust panic inside compile:
\* the current token then reads EOF so that every loop below ends exactly
\* as the unwinding would end it, and interpret discards the result.
\* ------------------------------------------------------------------------

EOFToken == [token_type |-> "EOF", start |-> 0, length |-> 0, line |-> 0]

Parser_new(heap) ==
  [current |-> EOFToken, previous |-> EOFToken,
   had_error |-> FALSE, panic_mode |-> FALSE,
   locals |-> <<>>, scope_depth |-> 0,
   scanner |-> Scanner_new, code |-> <<>>, constants |-> <<>>,
   heap |-> heap, errors |-> <<>>, panicked |-> FALSE]

error_at(p, token, message) ==
  IF p.panicked THEN p
  ELSE
  [p EXCEPT !.panic_mode = TRUE, !.had_error = TRUE,
            !.errors = Append(@, message)]

error_at_current(p, message) == error_at(p, p.current, message)

error_at_previous(p, message) == error_at(p, p.previous, message)

RECURSIVE advance_loop(_, _)
advance_loop(p, source) ==
  Bind(scan_token(p.scanner, source), LAMBDA r :
  Bind([p EXCEPT !.current = r.token, !.scanner = r.scanner], LAMBDA p1 :
    IF r.scanner.panicked
      THEN [p1 EXCEPT !.panicked = TRUE, !.current = EOFToken]
    ELSE IF r.token.token_type # "Error" THEN p1
    ELSE advance_loop(error_at_current(p1, "0"), source)))

Parser_advance(p, source) ==
  IF p.panicked THEN p
  ELSE advance_loop([p EXCEPT !.previous = p.current], source)

consume(p, source, token_type, message) ==
  IF p.current.token_type = token_type THEN Parser_advance(p, source)
  ELSE error_at_current(p, message)

match_token(p, source, token_type) ==
  IF p.current.token_type # token_type THEN [matched |-> FALSE, p |-> p]
  ELSE [matched |-> TRUE, p |-> Parser_advance(p, source)]

emit_byte(p, op) == [p EXCEPT !.code = Append(@, op)]

emit_bytes(p, op1, op2) == emit_byte(emit_byte(p, op1), op2)

\* Chunk::add_constant: the index of the pushed value is the old length.
add_constant(p, val) ==
  [p |-> [p EXCEPT !.constants = Append(@, val)], index |-> Len(p.constants)]

MaxConstantIndex == 255

emit_constant(p, value) ==
  IF value.t \in {"Number", "Obj"}
  THEN LET c == add_constant(p, value)
           p1 == IF c.index > MaxConstantIndex
                 THEN error_at_previous(c.p, "Too many constants in one chunk.")
                 ELSE c.p
       IN emit_byte(p1, Op1("Constant", c.index))
  ELSE p

token_lexeme(source, token) == lexeme(source, token.start, token.length)

\* Mutant: the text is taken from the current token, not the previous one.
identifier_constant_of_current(p, source) ==
  LET identifier == token_lexeme(source, p.current)
      a == allocate(p.heap, identifier)
  IN add_constant([p EXCEPT !.heap = a.heap], Obj(a.id))

identifier_constant(p, source) ==
  LET identifier == token_lexeme(source, p.previous)
      a == allocate(p.heap, identifier)
  IN add_constant([p EXCEPT !.heap = a.heap], Obj(a.id))

add_local(p, token) ==
  [p EXCEPT !.locals = Append(@, [token |-> token, depth |-> -1])]

begin_scope(p) == [p EXCEPT !.scope_depth = @ + 1]

RECURSIVE take_while_deeper(_, _, _)
take_while_deeper(locals, i, depth) ==
  IF i >= 1 /\ locals[i].depth > depth
  THEN 1 + take_while_deeper(locals, i - 1, depth)
  ELSE 0

RECURSIVE emit_pops(_, _)
emit_pops(p, n) ==
  IF n = 0 THEN p ELSE emit_pops(emit_byte(p, Op0("Pop")), n - 1)

\* end_scope counts the locals to pop but leaves self.compiler.locals as it is.
end_scope(p) ==
  LET p1 == [p EXCEPT !.scope_depth = @ - 1]
      locals_to_pop == take_while_deeper(p1.locals, Len(p1.locals), p1.scope_depth)
  IN emit_pops(p1, locals_to_pop)

RECURSIVE declare_walk(_, _, _, _)
declare_walk(p, source, i, name) ==
  IF i < 1 THEN p
  ELSE IF p.locals[i].depth # p.scope_depth THEN p
  ELSE declare_walk(
         IF token_lexeme(source, name) = token_lexeme(source, p.locals[i].token)
         THEN error_at_current(p, "Variable with this name already declared in this scope.")
         ELSE p,
         source, i - 1, name)

declare_variable(p, source) ==
  IF p.scope_depth = 0 THEN p
  ELSE add_local(declare_walk(p, source, Len(p.locals), p.previous), p.previous)

mark_initialized(p) ==
  IF p.scope_depth = 0 THEN p
  ELSE [p EXCEPT !.locals[Len(p.locals)].depth = p.scope_depth]

define_variable(p, global) ==
  IF p.scope_depth > 0 THEN mark_initialized(p)
  ELSE emit_byte(p, Op1("DefineGlobal", global))

\* Mutant: a match is returned whatever its depth.
resolve_local_any_depth(p, source) ==
  LET name == token_lexeme(source, p.previous)
      matches == {i \in 1..Len(p.locals) :
                    token_lexeme(source, p.locals[i].token) = name}
  IN
  IF matches = {} THEN [p |-> p, local |-> -1]
  ELSE LET i == CHOOSE j \in matches : \A k \in matches : k <= j IN
       [p |-> p, local |-> i - 1]

resolve_local(p, source) ==
  LET name == token_lexeme(source, p.previous)
      matches == {i \in 1..Len(p.locals) :
                    token_lexeme(source, p.locals[i].token) = name}
  IN
  IF matches = {} THEN [p |-> p, local |-> -1]
  ELSE LET i == CHOOSE j \in matches : \A k \in matches : k <= j IN
       [p |-> IF p.locals[i].depth = -1
              THEN error_at_current(p, "Cannot read local variable in its own initializer.")
              ELSE p,
        local |-> i - 1]

parse_variable(p, source) ==
  Bind(declare_variable(consume(p, source, "Identifier", "Expect variable name."),
                        source), LAMBDA p2 :
    IF p2.scope_depth > 0 THEN [p |-> p2, index |-> 0]
    ELSE identifier_constant(p2, source))

PrecNone == 0
PrecAssignment == 1
PrecEquality == 4
PrecComparison == 5
PrecTerm == 6
PrecFactor == 7
PrecUnary == 8
PrecPrimary == 10

increase(prec) == IF prec = PrecPrimary THEN PrecPrimary ELSE prec + 1

Rule(prefix, infix, precedence) ==
  [prefix |-> prefix, infix |-> infix, precedence |-> precedence]

get_rule(token_type) ==
  CASE token_type = "LeftParen" -> Rule("grouping", "None", PrecNone)
    [] token_type = "Minus" -> Rule("unary", "binary", PrecTerm)
    [] token_type = "Plus" -> Rule("None", "binary", PrecTerm)
    [] token_type \in {"Slash", "Star"} -> Rule("None", "binary", PrecFactor)
    [] token_type = "Bang" -> Rule("unary", "None", PrecNone)
    [] token_type \in {"BangEqual", "EqualEqual"} -> Rule("None", "binary", PrecEquality)
    [] token_type \in {"Greater", "GreaterEqual", "Less", "LessEqual"} ->
         Rule("None", "binary", PrecComparison)
    [] token_type = "Identifier" -> Rule("variable", "None", PrecNone)
    [] token_type = "String" -> Rule("string", "None", PrecNone)
    [] token_type = "Number" -> Rule("number", "None", PrecNone)
    [] token_type \in {"False", "Nil", "True"} -> Rule("literal", "None", PrecNone)
    [] OTHER -> Rule("None", "None", PrecNone)

literal(p) ==
  CASE p.previous.token_type = "False" -> emit_byte(p, Op0("False"))
    [] p.previous.token_type = "Nil" -> emit_byte(p, Op0("Nil"))
    [] p.previous.token_type = "True" -> emit_byte(p, Op0("True"))
    [] OTHER -> p

string(p, source) ==
  LET text == lexeme(source, p.previous.start + 1, p.previous.length - 2)
      a == allocate(p.heap, text)
  IN emit_constant([p EXCEPT !.heap = a.heap], Obj(a.id))

unsigned(text) ==
  IF text # <<>> /\ text[1] \in {"+", "-"} THEN Tail(text) ELSE text

\* The texts str::parse::<f64> accepts, among those the characters of the
\* model can spell: a sign, digits and at most one '.', one digit at least.
is_f64_text(text) ==
  /\ \A i \in 1..Len(unsigned(text)) : unsigned(text)[i] \in Digits \cup {"."}
  /\ Cardinality({i \in 1..Len(unsigned(text)) : unsigned(text)[i] = "."}) <= 1
  /\ \E i \in 1..Len(unsigned(text)) : unsigned(text)[i] \in Digits

\* source[start..start + length].parse::<f64>().unwrap(): the token's char
\* offsets taken as byte offsets; a bad slice or an Err unwinds.
number(p, source) ==
  Bind(str_slice(source, p.previous.start,
                 p.previous.start + p.previous.length), LAMBDA text :
    IF text = PanicSlice \/ ~is_f64_text(text)
    THEN [p EXCEPT !.panicked = TRUE, !.current = EOFToken]
    ELSE emit_constant(p, Number(IF text[1] = "-"
                                 THEN f64_neg(parse_f64(unsigned(text)))
                                 ELSE parse_f64(unsigned(text)))))

\* Mutant: the derived operators are emitted without their Not.
binary_ops_without_not(p, operator_type) ==
  CASE operator_type = "BangEqual" -> emit_byte(p, Op0("Equal"))
    [] operator_type = "EqualEqual" -> emit_byte(p, Op0("Equal"))
    [] operator_type = "Greater" -> emit_byte(p, Op0("Greater"))
    [] operator_type = "GreaterEqual" -> emit_byte(p, Op0("Less"))
    [] operator_type = "Less" -> emit_byte(p, Op0("Less"))
    [] operator_type = "LessEqual" -> emit_byte(p, Op0("Greater"))
    [] operator_type = "Plus" -> emit_byte(p, Op0("Add"))
    [] operator_type = "Minus" -> emit_byte(p, Op0("Subtract"))
    [] operator_type = "Star" -> emit_byte(p, Op0("Multiply"))
    [] operator_type = "Slash" -> emit_byte(p, Op0("Divide"))
    [] OTHER -> p

binary_ops(p, operator_type) ==
  CASE operator_type = "BangEqual" -> emit_bytes(p, Op0("Equal"), Op0("Not"))
    [] operator_type = "EqualEqual" -> emit_byte(p, Op0("Equal"))
    [] operator_type = "Greater" -> emit_byte(p, Op0("Greater"))
    [] operator_type = "GreaterEqual" -> emit_byte(emit_byte(p, Op0("Less")), Op0("Not"))
    [] operator_type = "Less" -> emit_byte(p, Op0("Less"))
    [] operator_type = "LessEqual" -> emit_byte(emit_byte(p, Op0("Greater")), Op0("Not"))
    [] operator_type = "Plus" -> emit_byte(p, Op0("Add"))
    [] operator_type = "Minus" -> emit_byte(p, Op0("Subtract"))
    [] operator_type = "Star" -> emit_byte(p, Op0("Multiply"))
    [] operator_type = "Slash" -> emit_byte(p, Op0("Divide"))
    [] OTHER -> p

RECURSIVE parse_precedence(_, _, _)
RECURSIVE infix_loop(_, _, _)
RECURSIVE declaration(_, _)
RECURSIVE block(_, _)

expression(p, source) == parse_precedence(p, source, PrecAssignment)

grouping(p, source) ==
  consume(expression(p, source), source, "RightParen", "Expect ')' after expression.")

unary(p, source) ==
  Bind(p.previous.token_type, LAMBDA operator_type :
  Bind(parse_precedence(p, source, PrecUnary), LAMBDA p1 :
    CASE operator_type = "Bang" -> emit_byte(p1, Op0("Not"))
      [] operator_type = "Minus" -> emit_byte(p1, Op0("Negate"))
      [] OTHER -> p1))

\* Mutant: the right operand is parsed at the operator's own precedence.
binary_right_associative(p, source) ==
  Bind(p.previous.token_type, LAMBDA operator_type :
  Bind(get_rule(operator_type), LAMBDA rule :
    binary_ops(parse_precedence(p, source, rule.precedence), operator_type)))

binary(p, source) ==
  Bind(p.previous.token_type, LAMBDA operator_type :
  Bind(get_rule(operator_type), LAMBDA rule :
    binary_ops(parse_precedence(p, source, increase(rule.precedence)),
               operator_type)))

named_variable(p, source, can_assign) ==
  Bind(identifier_constant(p, source), LAMBDA g :
  Bind(resolve_local(g.p, source), LAMBDA l :
  Bind(IF can_assign THEN match_token(l.p, source, "Equal")
       ELSE [matched |-> FALSE, p |-> l.p], LAMBDA m :
    IF m.matched
    THEN Bind(expression(m.p, source), LAMBDA p1 :
           IF l.local # -1 THEN emit_byte(p1, Op1("SetLocal", l.local))
           ELSE emit_byte(p1, Op1("SetGlobal", g.index)))
    ELSE IF l.local # -1 THEN emit_byte(m.p, Op1("GetLocal", l.local))
         ELSE emit_byte(m.p, Op1("GetGlobal", g.index)))))

variable(p, source, can_assign) == named_variable(p, source, can_assign)

call_rule(rule, p, source, can_assign) ==
  CASE rule = "grouping" -> grouping(p, source)
    [] rule = "unary" -> unary(p, source)
    [] rule = "binary" -> binary(p, source)
    [] rule = "variable" -> variable(p, source, can_assign)
    [] rule = "string" -> string(p, source)
    [] rule = "number" -> number(p, source)
    [] rule = "literal" -> literal(p)

infix_loop(p, source, precedence) ==
  IF precedence <= get_rule(p.current.token_type).precedence
  THEN Bind(Parser_advance(p, source), LAMBDA p1 :
       Bind(get_rule(p1.previous.token_type).infix, LAMBDA infix_rule :
         infix_loop(IF infix_rule # "None"
                    THEN call_rule(infix_rule, p1, source, FALSE) ELSE p1,
                    source, precedence)))
  ELSE p

parse_precedence(p, source, precedence) ==
  Bind(Parser_advance(p, source), LAMBDA p1 :
  Bind(get_rule(p1.previous.token_type).prefix, LAMBDA prefix_rule :
  Bind(precedence <= PrecAssignment, LAMBDA can_assign :
    infix_loop(IF prefix_rule # "None"
               THEN call_rule(prefix_rule, p1, source, can_assign) ELSE p1,
               source, precedence))))

print_statement(p, source) ==
  emit_byte(consume(expression(p, source), source, "Semicolon",
                    "Expect ';' after value."),
            Op0("Print"))

block(p, source) ==
  IF p.current.token_type # "RightBrace" /\ p.current.token_type # "EOF"
  THEN block(declaration(p, source), source)
  ELSE consume(p, source, "RightBrace", "Expect '}' after block.")

statement(p, source) ==
  Bind(match_token(p, source, "Print"), LAMBDA m1 :
    IF m1.matched THEN print_statement(m1.p, source)
    ELSE Bind(match_token(p, source, "LeftBrace"), LAMBDA m2 :
      IF m2.matched THEN end_scope(block(begin_scope(m2.p), source))
      ELSE consume(expression(p, source), source, "Semicolon",
                   "Expect ';' after expression.")))

SyncTokens == {"Class", "Fun", "Var", "For", "If", "While", "Print", "Return"}

RECURSIVE synchronize_loop(_, _)
synchronize_loop(p, source) ==
  IF p.current.token_type # "EOF"
  THEN IF p.previous.token_type = "Semicolon" THEN p
       ELSE IF p.current.token_type \in SyncTokens THEN p
       ELSE synchronize_loop(Parser_advance(p, source), source)
  ELSE p

synchronize(p, source) ==
  synchronize_loop([p EXCEPT !.panic_mode = FALSE], source)

var_declaration(p, source) ==
  Bind(parse_variable(p, source), LAMBDA g :
  Bind(match_token(g.p, source, "Equal"), LAMBDA m :
    define_variable(
      consume(IF m.matched THEN expression(m.p, source)
              ELSE emit_byte(m.p, Op0("Nil")),
              source, "Semicolon", "Expect ';' after variable declaration."),
      g.index)))

declaration(p, source) ==
  Bind(match_token(p, source, "Var"), LAMBDA m :
  Bind(IF m.matched THEN var_declaration(m.p, source)
       ELSE statement(p, source), LAMBDA p1 :
    IF p1.panic_mode THEN synchronize(p1, source) ELSE p1))

\* Mutant: a turn that finds no EOF leaves the tokens where they are.
compile_turn_stalling(r, source) ==
  IF r.done THEN r
  ELSE Bind(match_token(r.p, source, "EOF"), LAMBDA m :
         IF m.matched THEN [p |-> m.p, done |-> TRUE]
         ELSE [p |-> r.p, done |-> FALSE])

\* One turn of `while !self.match_token(EOF) { self.declaration(..) }`; done
\* records that the test has ended the loop.
compile_turn(r, source) ==
  IF r.done THEN r
  ELSE Bind(match_token(r.p, source, "EOF"), LAMBDA m :
         IF m.matched THEN [p |-> m.p, done |-> TRUE]
         ELSE [p |-> declaration(r.p, source), done |-> FALSE])

\* n turns of the loop, halved so that a long source is not a deep recursion.
RECURSIVE compile_turns(_, _, _)
compile_turns(r, source, n) ==
  IF n = 0 \/ r.done THEN r
  ELSE IF n = 1 THEN compile_turn(r, source)
  ELSE compile_turns(compile_turns(r, source, n \div 2), source, n - (n \div 2))

\* The while loop of compile.  Every turn but the last consumes at least one
\* token of at least one character, so Len(source) + 1 turns end the loop.
compile_loop(p, source) ==
  compile_turns([p |-> p, done |-> FALSE], source, Len(source) + 1).p

\* Parser::compile: the returned state holds the chunk and the heap; the
\* bool result of the Rust function is ~had_error.
compile(source, heap) ==
  compile_loop(Parser_advance(Parser_new(heap), source), source)

\* ------------------------------------------------------------------------
\* VM (vm.rs).  A VM state v is a record of the VM fields (chunk, ip, stack,
\* globals, heap) together with the control position pc ("idle" between
\* interpret calls, "running" inside run's loop, "panicked"), the result of
\* the last interpret call and out, the lines that call wrote to stdout.
\* print_value writes a carriage return before the text; out keeps the text.
\* ------------------------------------------------------------------------

push(v, value) == [v EXCEPT !.stack = Append(@, value)]

\* Vec::pop().unwrap(): callers check v.stack # <<>> first (panic otherwise).
top(v) == v.stack[Len(v.stack)]

drop(v) == [v EXCEPT !.stack = SubSeq(@, 1, Len(@) - 1)]

Panic(v) == [v EXCEPT !.pc = "panicked"]

Return(v, result) == [v EXCEPT !.pc = "idle", !.result = result]

\* Mutant: the report is written but the stack is not cleared.
runtime_error_keeping_stack(v, message, instruction) ==
  [v EXCEPT !.out = Append(@, [kind |-> "error", msg |-> message, op |-> instruction])]

\* message is <<text, name>>: the name of the variable for "Undefined
\* variable", empty otherwise.
runtime_error(v, message, instruction) ==
  [v EXCEPT !.out = Append(@, [kind |-> "error", msg |-> message, op |-> instruction]),
            !.stack = <<>>]

Fail(v, message, instruction) ==
  Return(runtime_error(v, message, instruction), "RuntimeError")

\* Any::type_id on a Value is the TypeId of the enum, whatever the variant.
type_id(value) == "Value"

equal_panics(heap, a, b) ==
  /\ type_id(a) = type_id(b)
  /\ a.t = "Obj" /\ b.t = "Obj"
  /\ (~has(heap, a.h) \/ ~has(heap, b.h))

\* Mutant: two Obj values are compared by handle instead of by text.
equal_by_handle(heap, a, b) ==
  CASE a.t = "Bool" -> (IF b.t = "Bool" THEN a.b = b.b ELSE FALSE)
    [] a.t = "Number" -> (IF b.t = "Number" THEN f64_eq(a.n, b.n) ELSE FALSE)
    [] a.t = "Nil" -> TRUE
    [] a.t = "Obj" -> (IF b.t = "Obj" THEN a.h = b.h ELSE FALSE)

equal(heap, a, b) ==
  IF type_id(a) # type_id(b) THEN FALSE
  ELSE CASE a.t = "Bool" -> (IF b.t = "Bool" THEN a.b = b.b ELSE FALSE)
         [] a.t = "Number" -> (IF b.t = "Number" THEN f64_eq(a.n, b.n) ELSE FALSE)
         [] a.t = "Nil" -> TRUE
         [] a.t = "Obj" -> (IF b.t = "Obj" THEN get(heap, a.h) = get(heap, b.h)
                            ELSE FALSE)

\* debug.rs print_value: the text written, or a panic on a dangling handle.
print_value_panics(value, heap) == value.t = "Obj" /\ ~has(heap, value.h)

print_value(value, heap) ==
  CASE value.t = "Number" -> to_string(value.n)
    [] value.t = "Nil" -> <<"n", "i", "l">>
    [] value.t = "Bool" -> (IF value.b THEN <<"t", "r", "u", "e">>
                            ELSE <<"f", "a", "l", "s", "e">>)
    [] value.t = "Obj" -> get(heap, value.h)

\* debug_trace_stack with the flag set: unwraps Heap::get for every Obj on the
\* stack, then dissassemble_instruction(chunk, heap, ip) unwraps code.get(ip)
\* and, for the constant instructions, prints constants[idx].
debug_trace_panics(v) ==
  \/ \E i \in 1..Len(v.stack) : v.stack[i].t = "Obj" /\ ~has(v.heap, v.stack[i].h)
  \/ v.ip >= Len(v.chunk.code)
  \/ LET instruction == v.chunk.code[v.ip + 1] IN
     /\ instruction.op \in {"Constant", "GetGlobal", "DefineGlobal", "SetGlobal"}
     /\ \/ instruction.a >= Len(v.chunk.constants)
        \/ print_value_panics(v.chunk.constants[instruction.a + 1], v.heap)

f64_binary(op, a, b) ==
  CASE op = ">" -> Bool(f64_gt(a, b))
    [] op = "<" -> Bool(f64_lt(a, b))
    [] op = "-" -> Number(f64_sub(a, b))
    [] op = "*" -> Number(f64_mul(a, b))
    [] op = "/" -> Number(f64_div(a, b))

\* macro binary_op!: b is popped and tested first; a is popped only when b is
\* a Number, and when a is not a Number nothing is pushed and nothing fails.
binary_op(v, op, instruction) ==
  IF v.stack = <<>> THEN Panic(v)
  ELSE LET b == top(v)
           v1 == drop(v)
       IN IF b.t = "Number"
          THEN IF v1.stack = <<>> THEN Panic(v1)
               ELSE LET a == top(v1)
                        v2 == drop(v1)
                    IN IF a.t = "Number" THEN push(v2, f64_binary(op, a.n, b.n))
                       ELSE v2
          ELSE Fail(v1, <<"Operands must be numbers", <<>>>>, instruction)

AddMessage == <<"Operands must be two numbers or two strings or one of each", <<>>>>

\* Mutant: the concatenation overwrites the entry of the first operand and
\* that handle is pushed; nothing is allocated.
concat_in_place(v, text, frees) ==
  LET v1 == push([v EXCEPT !.heap.values[frees[1]].data = text], Obj(frees[1]))
  IN [v1 EXCEPT !.heap =
        IF Len(frees) = 2 /\ frees[2] # frees[1] THEN free(v1.heap, frees[2])
        ELSE v1.heap]

\* Allocate the concatenation, push it, then free the handles in frees.
concat(v, text, frees) ==
  LET al == allocate(v.heap, text)
      v1 == push([v EXCEPT !.heap = al.heap], Obj(al.id))
  IN [v1 EXCEPT !.heap =
        IF Len(frees) = 2 THEN free(free(v1.heap, frees[1]), frees[2])
        ELSE free(v1.heap, frees[1])]

op_Add(v, instruction) ==
  IF Len(v.stack) < 2 THEN Panic(v)
  ELSE
    LET b == top(v)
        a == top(drop(v))
        v2 == drop(drop(v))
    IN
    IF a.t = "Number"
    THEN IF b.t = "Number" THEN push(v2, Number(f64_add(a.n, b.n)))
         ELSE IF b.t = "Obj"
           THEN IF ~has(v2.heap, b.h) THEN Panic(v2)
                ELSE concat(v2, to_string(a.n) \o get(v2.heap, b.h), <<b.h>>)
         ELSE v2
    ELSE IF a.t = "Obj"
    THEN IF b.t = "Obj"
         THEN IF ~has(v2.heap, a.h) \/ ~has(v2.heap, b.h) THEN Panic(v2)
              ELSE concat(v2, get(v2.heap, a.h) \o get(v2.heap, b.h), <<a.h, b.h>>)
         ELSE IF b.t = "Number"
           THEN IF ~has(v2.heap, a.h) THEN Panic(v2)
                ELSE concat(v2, get(v2.heap, a.h) \o to_string(b.n), <<a.h>>)
         ELSE v2
    ELSE Fail(v2, AddMessage, instruction)

op_Equal(v) ==
  IF Len(v.stack) < 2 THEN Panic(v)
  ELSE LET b == top(v)
           a == top(drop(v))
           v2 == drop(drop(v))
       IN IF equal_panics(v2.heap, a, b) THEN Panic(v2)
          ELSE push(v2, Bool(equal(v2.heap, a, b)))

\* Mutant: Nil is negated to false.
op_Not_nil_false(v, instruction) ==
  IF v.stack = <<>> THEN Panic(v)
  ELSE LET val == top(v)
           v1 == drop(v)
       IN IF val.t = "Bool" THEN push(v1, Bool(~val.b))
          ELSE IF val = Nil THEN push(v1, Bool(FALSE))
          ELSE Fail(v1, <<"Operand must be a boolean", <<>>>>, instruction)

op_Not(v, instruction) ==
  IF v.stack = <<>> THEN Panic(v)
  ELSE LET val == top(v)
           v1 == drop(v)
       IN IF val.t = "Bool" THEN push(v1, Bool(~val.b))
          ELSE IF val = Nil THEN push(v1, Bool(TRUE))
          ELSE Fail(v1, <<"Operand must be a boolean", <<>>>>, instruction)

op_Negate(v, instruction) ==
  IF v.stack = <<>> THEN Panic(v)
  ELSE LET val == top(v)
           v1 == drop(v)
       IN IF val.t = "Number" THEN push(v1, Number(f64_neg(val.n)))
          ELSE Fail(v1, <<"Operand must be a number", <<>>>>, instruction)

op_Pop(v) == IF v.stack = <<>> THEN Panic(v) ELSE drop(v)

op_GetLocal(v, local_idx) ==
  IF local_idx >= Len(v.stack) THEN Panic(v)
  ELSE push(v, v.stack[local_idx + 1])

\* Mutant: the assigned value is popped after the copy.
op_SetLocal_popping(v, local_idx) ==
  IF v.stack = <<>> THEN Panic(v)
  ELSE IF local_idx >= Len(v.stack) THEN Panic(v)
  ELSE drop([v EXCEPT !.stack[local_idx + 1] = top(v)])

\* peek(0) indexes stack[len - 1]: it panics on an empty stack.
op_SetLocal(v, local_idx) ==
  IF v.stack = <<>> THEN Panic(v)
  ELSE IF local_idx >= Len(v.stack) THEN Panic(v)
  ELSE [v EXCEPT !.stack[local_idx + 1] = top(v)]

\* Mutant: a global is found only through the oldest handle of its name.
op_GetGlobal_by_handle(v, const_idx, instruction) ==
  IF const_idx >= Len(v.chunk.constants) THEN Panic(v)
  ELSE LET c == v.chunk.constants[const_idx + 1] IN
       IF c.t = "Obj"
       THEN IF ~has(v.heap, c.h) THEN Panic(v)
            ELSE LET name == get(v.heap, c.h) IN
                 IF /\ name \in DOMAIN v.globals
                    /\ \A g \in DOMAIN v.heap.values :
                         get(v.heap, g) = name => c.h <= g
                 THEN push(v, v.globals[name])
                 ELSE Fail(v, <<"Undefined variable", name>>, instruction)
       ELSE v

\* The three global instructions act only when constants[const_idx] is an
\* Obj; its heap entry is unwrapped and is always a String.
op_GetGlobal(v, const_idx, instruction) ==
  IF const_idx >= Len(v.chunk.constants) THEN Panic(v)
  ELSE LET c == v.chunk.constants[const_idx + 1] IN
       IF c.t = "Obj"
       THEN IF ~has(v.heap, c.h) THEN Panic(v)
            ELSE LET name == get(v.heap, c.h) IN
                 IF name \in DOMAIN v.globals THEN push(v, v.globals[name])
                 ELSE Fail(v, <<"Undefined variable", name>>, instruction)
       ELSE v

\* Mutant: a name that is already defined keeps its value.
op_DefineGlobal_keeping_first(v, const_idx) ==
  IF v.stack = <<>> THEN Panic(v)
  ELSE LET val == top(v)
           v1 == drop(v)
       IN IF const_idx >= Len(v1.chunk.constants) THEN Panic(v1)
          ELSE LET c == v1.chunk.constants[const_idx + 1] IN
               IF c.t = "Obj"
               THEN IF ~has(v1.heap, c.h) THEN Panic(v1)
                    ELSE [v1 EXCEPT !.globals = @ @@ (get(v1.heap, c.h) :> val)]
               ELSE v1

op_DefineGlobal(v, const_idx) ==
  IF v.stack = <<>> THEN Panic(v)
  ELSE LET val == top(v)
           v1 == drop(v)
       IN IF const_idx >= Len(v1.chunk.constants) THEN Panic(v1)
          ELSE LET c == v1.chunk.constants[const_idx + 1] IN
               IF c.t = "Obj"
               THEN IF ~has(v1.heap, c.h) THEN Panic(v1)
                    ELSE [v1 EXCEPT !.globals = (get(v1.heap, c.h) :> val) @@ @]
               ELSE v1

\* Mutant: SetGlobal inserts the name when it is not defined yet.
op_SetGlobal_defining(v, const_idx, instruction) ==
  IF v.stack = <<>> THEN Panic(v)
  ELSE IF const_idx >= Len(v.chunk.constants) THEN Panic(drop(v))
  ELSE LET c == v.chunk.constants[const_idx + 1] IN
       IF c.t = "Obj"
       THEN IF ~has(v.heap, c.h) THEN Panic(drop(v))
            ELSE [drop(v) EXCEPT !.globals = (get(v.heap, c.h) :> top(v)) @@ @]
       ELSE drop(v)

op_SetGlobal(v, const_idx, instruction) ==
  IF v.stack = <<>> THEN Panic(v)
  ELSE LET val == top(v)
           v1 == drop(v)
       IN IF const_idx >= Len(v1.chunk.constants) THEN Panic(v1)
          ELSE LET c == v1.chunk.constants[const_idx + 1] IN
               IF c.t = "Obj"
               THEN IF ~has(v1.heap, c.h) THEN Panic(v1)
                    ELSE LET name == get(v1.heap, c.h) IN
                         IF name \in DOMAIN v1.globals
                         THEN [v1 EXCEPT !.globals = (name :> val) @@ @]
                         ELSE Fail(v1, <<"Undefined variable", name>>, instruction)
               ELSE v1

\* Print pops and writes only while DEBUG_TRACE_EXECUTION is false.
op_Print(v, trace) ==
  IF trace THEN v
  ELSE IF v.stack = <<>> THEN Panic(v)
  ELSE IF print_value_panics(top(v), v.heap) THEN Panic(drop(v))
  ELSE [drop(v) EXCEPT !.out =
          Append(@, [kind |-> "print", text |-> print_value(top(v), v.heap)])]

\* Mutant: the condition is popped after the test.
op_JumpIfFalse_popping(v, offset) ==
  IF v.stack = <<>> THEN Panic(v)
  ELSE IF top(v) = Nil \/ top(v) = Bool(FALSE) THEN drop([v EXCEPT !.ip = @ + offset])
  ELSE drop(v)

op_JumpIfFalse(v, offset) ==
  IF v.stack = <<>> THEN Panic(v)
  ELSE IF top(v) = Nil \/ top(v) = Bool(FALSE) THEN [v EXCEPT !.ip = @ + offset]
  ELSE v

op_Jump(v, offset) == [v EXCEPT !.ip = @ + offset]

\* ip -= offset on a usize: an underflow panics (overflow checks on) or wraps
\* to an ip past the end of the code (overflow checks off), which ends the run.
op_Loop(v, offset, wraps) ==
  IF offset <= v.ip THEN [v EXCEPT !.ip = @ - offset]
  ELSE IF wraps THEN [v EXCEPT !.ip = Len(v.chunk.code)]
  ELSE Panic(v)

execute(v, instruction, trace) ==
  LET op == instruction.op IN
  CASE op = "Constant" ->
         (IF instruction.a >= Len(v.chunk.constants) THEN Panic(v)
          ELSE push(v, v.chunk.constants[instruction.a + 1]))
    [] op = "Nil" -> push(v, Nil)
    [] op = "True" -> push(v, Bool(TRUE))
    [] op = "False" -> push(v, Bool(FALSE))
    [] op = "Pop" -> op_Pop(v)
    [] op = "GetLocal" -> op_GetLocal(v, instruction.a)
    [] op = "SetLocal" -> op_SetLocal(v, instruction.a)
    [] op = "GetGlobal" -> op_GetGlobal(v, instruction.a, instruction)
    [] op = "DefineGlobal" -> op_DefineGlobal(v, instruction.a)
    [] op = "SetGlobal" -> op_SetGlobal(v, instruction.a, instruction)
    [] op = "Equal" -> op_Equal(v)
    [] op = "Greater" -> binary_op(v, ">", instruction)
    [] op = "Less" -> binary_op(v, "<", instruction)
    [] op = "Add" -> op_Add(v, instruction)
    [] op = "Subtract" -> binary_op(v, "-", instruction)
    [] op = "Multiply" -> binary_op(v, "*", instruction)
    [] op = "Divide" -> binary_op(v, "/", instruction)
    [] op = "Not" -> op_Not(v, instruction)
    [] op = "Negate" -> op_Negate(v, instruction)
    [] op = "Print" -> op_Print(v, trace)
    [] op = "JumpIfFalse" -> op_JumpIfFalse(v, instruction.a)
    [] op = "Jump" -> op_Jump(v, instruction.a)
    [] op = "Loop" -> op_Loop(v, instruction.a, FALSE)
    [] op = "Return" -> Return(v, "Ok")

\* read_byte: chunk.code[ip] panics when ip is not an index of the code.
read_byte_panics(v) == v.ip >= Len(v.chunk.code)

\* Mutant: the instruction after the one executed is skipped.
run_step_skipping(v, trace) ==
  IF trace /\ debug_trace_panics(v) THEN Panic(v)
  ELSE IF read_byte_panics(v) THEN Panic(v)
  ELSE Bind(execute([v EXCEPT !.ip = @ + 2], v.chunk.code[v.ip + 1], trace),
            LAMBDA r :
              IF r.pc = "running" /\ r.ip >= Len(r.chunk.code) THEN Return(r, "Ok")
              ELSE r)

\* One iteration of the loop of VM::run.
run_step(v, trace) ==
  IF trace /\ debug_trace_panics(v) THEN Panic(v)
  ELSE IF read_byte_panics(v) THEN Panic(v)
  ELSE Bind(execute([v EXCEPT !.ip = @ + 1], v.chunk.code[v.ip + 1], trace),
            LAMBDA r :
              IF r.pc = "running" /\ r.ip >= Len(r.chunk.code) THEN Return(r, "Ok")
              ELSE r)

\* What error_at wrote to stderr during the compilation, in order.
compile_errors(p) ==
  [i \in 1..Len(p.errors) |-> [kind |-> "compile_error", msg |-> p.errors[i]]]

\* Mutant: the chunk, ip and stack are installed before the result of compile
\* is tested.
interpret_installing_first(v, source) ==
  Bind(compile(source, v.heap), LAMBDA p :
    IF p.panicked THEN Panic([v EXCEPT !.out = compile_errors(p)])
    ELSE IF p.had_error
      THEN Return([v EXCEPT !.heap = p.heap, !.out = compile_errors(p),
                            !.chunk = [code |-> p.code, constants |-> p.constants],
                            !.ip = 0, !.stack = <<>>],
                  "CompileError")
    ELSE [v EXCEPT !.heap = p.heap, !.out = <<>>,
                   !.chunk = [code |-> p.code, constants |-> p.constants],
                   !.ip = 0, !.stack = <<>>, !.pc = "running", !.result = "None"])

\* Mutant: the stack of the previous call is kept.
interpret_keeping_stack(v, source) ==
  Bind(compile(source, v.heap), LAMBDA p :
    IF p.panicked THEN Panic([v EXCEPT !.out = compile_errors(p)])
    ELSE IF p.had_error
      THEN Return([v EXCEPT !.heap = p.heap, !.out = compile_errors(p)],
                  "CompileError")
    ELSE [v EXCEPT !.heap = p.heap, !.out = <<>>,
                   !.chunk = [code |-> p.code, constants |-> p.constants],
                   !.ip = 0, !.pc = "running", !.result = "None"])

\* VM::interpret up to the call of run.  out starts with what the compiler
\* reported; it is empty when the compilation succeeded.
interpret(v, source) ==
  Bind(compile(source, v.heap), LAMBDA p :
    IF p.panicked THEN Panic([v EXCEPT !.out = compile_errors(p)])
    ELSE IF p.had_error
      THEN Return([v EXCEPT !.heap = p.heap, !.out = compile_errors(p)],
                  "CompileError")
    ELSE [v EXCEPT !.heap = p.heap, !.out = <<>>,
                   !.chunk = [code |-> p.code, constants |-> p.constants],
                   !.ip = 0, !.stack = <<>>, !.pc = "running", !.result = "None"])

VM_new ==
  [chunk |-> [code |-> <<>>, constants |-> <<>>], ip |-> 0, stack |-> <<>>,
   globals |-> [n \in {} |-> Nil], heap |-> Heap_new,
   out |-> <<>>, pc |-> "idle", result |-> "None"]

\* Mutant: init_vm also clears the globals.
init_vm_clearing_globals(v) ==
  [v EXCEPT !.stack = <<>>, !.chunk = [code |-> <<>>, constants |-> <<>>], !.ip = 0,
            !.globals = [n \in {} |-> Nil]]

init_vm(v) ==
  [v EXCEPT !.stack = <<>>, !.chunk = [code |-> <<>>, constants |-> <<>>], !.ip = 0]

\* ------------------------------------------------------------------------
\* Sources handed to interpret
\* ------------------------------------------------------------------------

\* the empty source
P_empty ==
  <<>>

\* {}
P_braces ==
  <<"{", "}">>

\* var x = 10; { var x = 20; print x; } print x;
P_shadow ==
  <<"v", "a", "r", " ", "x", " ", "=", " ", "1", "0", ";", " ", "{", " ",
    "v", "a", "r", " ", "x", " ", "=", " ", "2", "0", ";", " ", "p", "r",
    "i", "n", "t", " ", "x", ";", " ", "}", " ", "p", "r", "i", "n", "t",
    " ", "x", ";">>

\* { var y = 1; print y; }
P_block ==
  <<"{", " ", "v", "a", "r", " ", "y", " ", "=", " ", "1", ";", " ", "p",
    "r", "i", "n", "t", " ", "y", ";", " ", "}">>

\* { print 7; }
P_block0 ==
  <<"{", " ", "p", "r", "i", "n", "t", " ", "7", ";", " ", "}">>

\* { var y = 1; var z = 2; print y; print z; }
P_block2 ==
  <<"{", " ", "v", "a", "r", " ", "y", " ", "=", " ", "1", ";", " ", "v",
    "a", "r", " ", "z", " ", "=", " ", "2", ";", " ", "p", "r", "i", "n",
    "t", " ", "y", ";", " ", "p", "r", "i", "n", "t", " ", "z", ";", " ",
    "}">>

\* { var y = 1; print y; } { var z = 2; print z; }
P_siblings ==
  <<"{", " ", "v", "a", "r", " ", "y", " ", "=", " ", "1", ";", " ", "p",
    "r", "i", "n", "t", " ", "y", ";", " ", "}", " ", "{", " ", "v", "a",
    "r", " ", "z", " ", "=", " ", "2", ";", " ", "p", "r", "i", "n", "t",
    " ", "z", ";", " ", "}">>

\* { var y = 1; { var z = 2; print z; } print y; }
P_nested ==
  <<"{", " ", "v", "a", "r", " ", "y", " ", "=", " ", "1", ";", " ", "{",
    " ", "v", "a", "r", " ", "z", " ", "=", " ", "2", ";", " ", "p", "r",
    "i", "n", "t", " ", "z", ";", " ", "}", " ", "p", "r", "i", "n", "t",
    " ", "y", ";", " ", "}">>

\* var x = "a"; var y = x + "b"; print x;
P_dangle ==
  <<"v", "a", "r", " ", "x", " ", "=", " ", "\"", "a", "\"", ";", " ", "v",
    "a", "r", " ", "y", " ", "=", " ", "x", " ", "+", " ", "\"", "b", "\"",
    ";", " ", "p", "r", "i", "n", "t", " ", "x", ";">>

\* print 1 == 1; print "a" == "a"; print 1 == "1";
P_eq_scenario ==
  <<"p", "r", "i", "n", "t", " ", "1", " ", "=", "=", " ", "1", ";", " ",
    "p", "r", "i", "n", "t", " ", "\"", "a", "\"", " ", "=", "=", " ",
    "\"", "a", "\"", ";", " ", "p", "r", "i", "n", "t", " ", "1", " ", "=",
    "=", " ", "\"", "1", "\"", ";">>

\* var x = "a"; print x == x;
P_eq_same ==
  <<"v", "a", "r", " ", "x", " ", "=", " ", "\"", "a", "\"", ";", " ", "p",
    "r", "i", "n", "t", " ", "x", " ", "=", "=", " ", "x", ";">>

\* var x = 2;
P_def ==
  <<"v", "a", "r", " ", "x", " ", "=", " ", "2", ";">>

\* x = 1;
P_set ==
  <<"x", " ", "=", " ", "1", ";">>

\* print x;
P_read ==
  <<"p", "r", "i", "n", "t", " ", "x", ";">>

\* var y = 3; print -true;
P_def_then_fail ==
  <<"v", "a", "r", " ", "y", " ", "=", " ", "3", ";", " ", "p", "r", "i",
    "n", "t", " ", "-", "t", "r", "u", "e", ";">>

\* print ;
P_compile_error ==
  <<"p", "r", "i", "n", "t", " ", ";">>

\* print ; an
P_error_then_panic ==
  <<"p", "r", "i", "n", "t", " ", ";", " ", "a", "n">>

\* { var a = 1; var a = 2; }
P_redeclare ==
  <<"{", " ", "v", "a", "r", " ", "a", " ", "=", " ", "1", ";", " ", "v",
    "a", "r", " ", "a", " ", "=", " ", "2", ";", " ", "}">>

\* { var a = 1; { var a = 2; } }
P_redeclare_enclosing ==
  <<"{", " ", "v", "a", "r", " ", "a", " ", "=", " ", "1", ";", " ", "{",
    " ", "v", "a", "r", " ", "a", " ", "=", " ", "2", ";", " ", "}", " ",
    "}">>

\* { var a = 1; } { var a = 2; }
P_redeclare_sibling ==
  <<"{", " ", "v", "a", "r", " ", "a", " ", "=", " ", "1", ";", " ", "}",
    " ", "{", " ", "v", "a", "r", " ", "a", " ", "=", " ", "2", ";", " ",
    "}">>

\* { var a = a; }
P_own_initializer ==
  <<"{", " ", "v", "a", "r", " ", "a", " ", "=", " ", "a", ";", " ", "}">>

\* { var a = 1; { var a = a; } }
P_own_initializer_nested ==
  <<"{", " ", "v", "a", "r", " ", "a", " ", "=", " ", "1", ";", " ", "{",
    " ", "v", "a", "r", " ", "a", " ", "=", " ", "a", ";", " ", "}", " ",
    "}">>

\* { var a = 1 + a; }
P_own_initializer_sum ==
  <<"{", " ", "v", "a", "r", " ", "a", " ", "=", " ", "1", " ", "+", " ",
    "a", ";", " ", "}">>

\* print +;
P_print_plus ==
  <<"p", "r", "i", "n", "t", " ", "+", ";">>

\* +;
P_plus ==
  <<"+", ";">>

\* };
P_brace_semicolon ==
  <<"}", ";">>

\* a + b = c;
P_assign_sum ==
  <<"a", " ", "+", " ", "b", " ", "=", " ", "c", ";">>

\* 1 = 2;
P_assign_number ==
  <<"1", " ", "=", " ", "2", ";">>

W_print == <<"p", "r", "i", "n", "t", " ">>

\* Arithmetic expressions with the value the usual reading gives them: `*` and
\* `/` bind tighter than `+` and `-`, unary `-` tighter than both, operators
\* of one level group to the left.
ArithOperators == {"+", "-", "*", "/"}

OperandTriples == {<<8, 4, 2>>, <<1, 2, 3>>}

Level(o) == IF o \in {"*", "/"} THEN 2 ELSE 1

Apply(o, x, y) ==
  CASE o = "+" -> f64_add(x, y)
    [] o = "-" -> f64_sub(x, y)
    [] o = "*" -> f64_mul(x, y)
    [] o = "/" -> f64_div(x, y)

Val(n) == [num |-> n, den |-> 1]

Lit(n) == nat_to_chars(n)

Infix(l, o, r) == l \o <<" ", o, " ">> \o r

Paren(e) == <<"(">> \o e \o <<")">>

PrintOf(e) == W_print \o e \o <<";">>

ExprCase(e, value) == [text |-> PrintOf(e), value |-> value]

\* a o1 b o2 c
ChainCases ==
  {ExprCase(Infix(Infix(Lit(t[1]), o1, Lit(t[2])), o2, Lit(t[3])),
            IF Level(o2) > Level(o1)
            THEN Apply(o1, Val(t[1]), Apply(o2, Val(t[2]), Val(t[3])))
            ELSE Apply(o2, Apply(o1, Val(t[1]), Val(t[2])), Val(t[3]))) :
     t \in OperandTriples, o1 \in ArithOperators, o2 \in ArithOperators}

\* (a o1 b) o2 c   and   a o1 (b o2 c)
ParenCases ==
  {ExprCase(Infix(Paren(Infix(Lit(t[1]), o1, Lit(t[2]))), o2, Lit(t[3])),
            Apply(o2, Apply(o1, Val(t[1]), Val(t[2])), Val(t[3]))) :
     t \in OperandTriples, o1 \in ArithOperators, o2 \in ArithOperators}
  \cup
  {ExprCase(Infix(Lit(t[1]), o1, Paren(Infix(Lit(t[2]), o2, Lit(t[3])))),
            Apply(o1, Val(t[1]), Apply(o2, Val(t[2]), Val(t[3])))) :
     t \in OperandTriples, o1 \in ArithOperators, o2 \in ArithOperators}

\* -a o b,  a o -b,  -(a o b),  - -a
NegateCases ==
  {ExprCase(Infix(<<"-">> \o Lit(t[1]), o, Lit(t[2])),
            Apply(o, f64_neg(Val(t[1])), Val(t[2]))) :
     t \in OperandTriples, o \in ArithOperators}
  \cup
  {ExprCase(Infix(Lit(t[1]), o, <<"-">> \o Lit(t[2])),
            Apply(o, Val(t[1]), f64_neg(Val(t[2])))) :
     t \in OperandTriples, o \in ArithOperators}
  \cup
  {ExprCase(<<"-">> \o Paren(Infix(Lit(t[1]), o, Lit(t[2]))),
            f64_neg(Apply(o, Val(t[1]), Val(t[2])))) :
     t \in OperandTriples, o \in ArithOperators}
  \cup
  {ExprCase(<<"-", " ", "-">> \o Lit(t[1]), Val(t[1])) : t \in OperandTriples}

ArithmeticCases == ChainCases \cup ParenCases \cup NegateCases

ArithmeticPrograms == {c.text : c \in ArithmeticCases}

\* print 1 + 2 * 3;
P_precedence ==
  <<"p", "r", "i", "n", "t", " ", "1", " ", "+", " ", "2", " ", "*", " ",
    "3", ";">>

\* var a = "hi"; var b = " there"; print a + b;
P_concat ==
  <<"v", "a", "r", " ", "a", " ", "=", " ", "\"", "h", "i", "\"", ";", " ",
    "v", "a", "r", " ", "b", " ", "=", " ", "\"", " ", "t", "h", "e", "r",
    "e", "\"", ";", " ", "p", "r", "i", "n", "t", " ", "a", " ", "+", " ",
    "b", ";">>

\* var x = "a"; print x + x;
P_concat_same ==
  <<"v", "a", "r", " ", "x", " ", "=", " ", "\"", "a", "\"", ";", " ", "p",
    "r", "i", "n", "t", " ", "x", " ", "+", " ", "x", ";">>

\* The table of the 16 keywords: token kind and keyword text.
KeywordTable ==
  {<<"And", <<"a", "n", "d">>>>,
   <<"Class", <<"c", "l", "a", "s", "s">>>>,
   <<"Else", <<"e", "l", "s", "e">>>>,
   <<"False", <<"f", "a", "l", "s", "e">>>>,
   <<"For", <<"f", "o", "r">>>>,
   <<"Fun", <<"f", "u", "n">>>>,
   <<"If", <<"i", "f">>>>,
   <<"Nil", <<"n", "i", "l">>>>,
   <<"Or", <<"o", "r">>>>,
   <<"Print", <<"p", "r", "i", "n", "t">>>>,
   <<"Return", <<"r", "e", "t", "u", "r", "n">>>>,
   <<"Super", <<"s", "u", "p", "e", "r">>>>,
   <<"This", <<"t", "h", "i", "s">>>>,
   <<"True", <<"t", "r", "u", "e">>>>,
   <<"Var", <<"v", "a", "r">>>>,
   <<"While", <<"w", "h", "i", "l", "e">>>>}

KeywordLookup(word) ==
  IF \E k \in KeywordTable : k[2] = word
  THEN (CHOOSE k \in KeywordTable : k[2] = word)[1]
  ELSE "Identifier"

\* andy format variable printer a f t x an fo th classy iffy nile thin
OtherWords ==
  {<<"a", "n", "d", "y">>,
   <<"f", "o", "r", "m", "a", "t">>,
   <<"v", "a", "r", "i", "a", "b", "l", "e">>,
   <<"p", "r", "i", "n", "t", "e", "r">>,
   <<"a">>,
   <<"f">>,
   <<"t">>,
   <<"x">>,
   <<"a", "n">>,
   <<"f", "o">>,
   <<"t", "h">>,
   <<"c", "l", "a", "s", "s", "y">>,
   <<"i", "f", "f", "y">>,
   <<"n", "i", "l", "e">>,
   <<"t", "h", "i", "n">>}

ProbeWords == {k[2] : k \in KeywordTable} \cup OtherWords

\* A word alone, before `;`, before a longer tail, and after `1 `.
KeywordCases ==
  {[text |-> pre \o w \o post, start |-> Len(pre), word |-> w] :
     w \in ProbeWords,
     pre \in {<<>>, <<"1", " ">>},
     post \in {<<>>, <<";">>, <<" ", "=", " ", "1", "2", "3", ";">>}}

KeywordPrograms == {c.text : c \in KeywordCases}

\* The token scan_token returns at offset start, scanning from the scanner sc.
RECURSIVE TokenAt(_, _, _)
TokenAt(sc, source, start) ==
  Bind(scan_token(sc, source), LAMBDA r :
    IF r.scanner.panicked \/ r.token.token_type = "EOF" \/ r.token.start >= start
    THEN r
    ELSE TokenAt(r.scanner, source, start))

\* text repeated n times
Repeat(text, n) ==
  [i \in 1..(n * Len(text)) |-> text[((i - 1) % Len(text)) + 1]]

\* One more constant than a chunk may hold.
TooManyConstants == MaxConstantIndex + 2

\* x;x;x;...  each reference to x adds the name to the constant pool
P_many_identifiers == Repeat(<<"x", ";">>, TooManyConstants)

\* 1;1;1;...
P_many_numbers == Repeat(<<"1", ";">>, TooManyConstants)

\* "s";"s";"s";...
P_many_strings == Repeat(<<"\"", "s", "\"", ";">>, TooManyConstants)

ManyConstantsPrograms == {P_many_identifiers, P_many_numbers, P_many_strings}

Literals ==
  {<<"1">>, <<"2">>, <<"t", "r", "u", "e">>, <<"f", "a", "l", "s", "e">>,
   <<"n", "i", "l">>, <<"\"", "a", "\"">>, <<"\"", "b", "\"">>}

BinaryOperators ==
  {<<"+">>, <<"-">>, <<"*">>, <<"/">>, <<">">>, <<"<">>,
   <<"=", "=">>, <<"!", "=">>, <<">", "=">>, <<"<", "=">>}

\* print L op R;
BinaryPrograms ==
  {W_print \o l \o <<" ">> \o o \o <<" ">> \o r \o <<";">> :
     l \in Literals, o \in BinaryOperators, r \in Literals}

\* print !L;  print -L;
UnaryPrograms ==
  {W_print \o u \o l \o <<";">> : u \in {<<"!">>, <<"-">>}, l \in Literals}

BlockPrograms == {P_braces, P_block, P_block0, P_block2, P_siblings, P_nested}

RedeclarePrograms == {P_redeclare, P_redeclare_enclosing, P_redeclare_sibling}

\* A token without a prefix rule stands where an expression is expected.
NoPrefixPrograms == {P_print_plus, P_plus, P_brace_semicolon}

\* An `=` follows an expression that is not an assignment target.
BadTargetPrograms == {P_assign_sum, P_assign_number}

OwnInitializerPrograms ==
  {P_own_initializer, P_own_initializer_nested, P_own_initializer_sum}

\* ------------------------------------------------------------------------
\* Sources with a character no token starts with, or a string left open
\* ------------------------------------------------------------------------

\* @
P_unexpected ==
  <<"@">>

\* print 1; @
P_unexpected_after ==
  <<"p", "r", "i", "n", "t", " ", "1", ";", " ", "@">>

\* print 1 # 2;
P_unexpected_inside ==
  <<"p", "r", "i", "n", "t", " ", "1", " ", "#", " ", "2", ";">>

\* print "ab
P_unterminated ==
  <<"p", "r", "i", "n", "t", " ", "\"", "a", "b">>

\* var x = "a;
P_unterminated_var ==
  <<"v", "a", "r", " ", "x", " ", "=", " ", "\"", "a", ";">>

\* U+00E9
P_non_ascii ==
  <<EAcute>>

\* print 1; U+00E9
P_non_ascii_after ==
  <<"p", "r", "i", "n", "t", " ", "1", ";", " ", EAcute>>

\* print "U+00E9
P_unterminated_non_ascii ==
  <<"p", "r", "i", "n", "t", " ", "\"", EAcute>>

\* print 1; // @ "
P_comment_unexpected ==
  <<"p", "r", "i", "n", "t", " ", "1", ";", " ", "/", "/", " ", "@", " ",
    "\"">>

\* print "@";
P_string_unexpected ==
  <<"p", "r", "i", "n", "t", " ", "\"", "@", "\"", ";">>

AsciiScanErrorPrograms ==
  {P_unexpected, P_unexpected_after, P_unexpected_inside,
   P_unterminated, P_unterminated_var}

ScanErrorPrograms ==
  AsciiScanErrorPrograms
  \cup {P_non_ascii, P_non_ascii_after, P_unterminated_non_ascii}

\* The same characters inside a comment and inside a closed string.
NoScanErrorPrograms == {P_comment_unexpected, P_string_unexpected}

\* ------------------------------------------------------------------------
\* Sources for Not
\* ------------------------------------------------------------------------

\* print !nil; print !false; print !true;
P_not_scenario ==
  <<"p", "r", "i", "n", "t", " ", "!", "n", "i", "l", ";", " ", "p", "r",
    "i", "n", "t", " ", "!", "f", "a", "l", "s", "e", ";", " ", "p", "r",
    "i", "n", "t", " ", "!", "t", "r", "u", "e", ";">>

\* print !!true;
P_not_not_true ==
  <<"p", "r", "i", "n", "t", " ", "!", "!", "t", "r", "u", "e", ";">>

\* print !!false;
P_not_not_false ==
  <<"p", "r", "i", "n", "t", " ", "!", "!", "f", "a", "l", "s", "e", ";">>

NotPrograms == {P_not_scenario, P_not_not_true, P_not_not_false}

\* ------------------------------------------------------------------------
\* Sources whose prints read what earlier statements defined and assigned
\* ------------------------------------------------------------------------

\* var x = 1; print x; x = 2; print x; var y = x + 1; print y; var x = 5; print x;
P_order ==
  <<"v", "a", "r", " ", "x", " ", "=", " ", "1", ";", " ", "p", "r", "i",
    "n", "t", " ", "x", ";", " ", "x", " ", "=", " ", "2", ";", " ", "p",
    "r", "i", "n", "t", " ", "x", ";", " ", "v", "a", "r", " ", "y", " ",
    "=", " ", "x", " ", "+", " ", "1", ";", " ", "p", "r", "i", "n", "t",
    " ", "y", ";", " ", "v", "a", "r", " ", "x", " ", "=", " ", "5", ";",
    " ", "p", "r", "i", "n", "t", " ", "x", ";">>

\* print 1; print -nil; print 2;
P_order_fail ==
  <<"p", "r", "i", "n", "t", " ", "1", ";", " ", "p", "r", "i", "n", "t",
    " ", "-", "n", "i", "l", ";", " ", "p", "r", "i", "n", "t", " ", "2",
    ";">>

OrderPrograms == {P_order, P_order_fail}

\* ------------------------------------------------------------------------
\* Sources that end inside a block, an expression or a synchronisation
\* ------------------------------------------------------------------------

\* print ; ; print 1;
P_sync_print ==
  <<"p", "r", "i", "n", "t", " ", ";", " ", ";", " ", "p", "r", "i", "n",
    "t", " ", "1", ";">>

\* { var ; }
P_sync_block ==
  <<"{", " ", "v", "a", "r", " ", ";", " ", "}">>

\* (((
P_open_parens ==
  <<"(", "(", "(">>

\* { { {
P_open_blocks ==
  <<"{", " ", "{", " ", "{">>

\* } } }
P_close_blocks ==
  <<"}", " ", "}", " ", "}">>

\* var var var
P_vars ==
  <<"v", "a", "r", " ", "v", "a", "r", " ", "v", "a", "r">>

\* = = =
P_equals ==
  <<"=", " ", "=", " ", "=">>

\* 1 2 3
P_numbers ==
  <<"1", " ", "2", " ", "3">>

\* { print ;
P_open_block_error ==
  <<"{", " ", "p", "r", "i", "n", "t", " ", ";">>

\* 1 2 var x = 3; print x;
P_sync_to_var ==
  <<"1", " ", "2", " ", "v", "a", "r", " ", "x", " ", "=", " ", "3", ";",
    " ", "p", "r", "i", "n", "t", " ", "x", ";">>

TerminationPrograms ==
  {P_sync_print, P_sync_block, P_open_parens, P_open_blocks,
   P_close_blocks, P_vars, P_equals, P_numbers,
   P_open_block_error, P_sync_to_var}

\* ------------------------------------------------------------------------
\* Sources that read and assign locals
\* ------------------------------------------------------------------------

\* 1; { var a = 2; print a; }
P_expression_then_local ==
  <<"1", ";", " ", "{", " ", "v", "a", "r", " ", "a", " ", "=", " ", "2",
    ";", " ", "p", "r", "i", "n", "t", " ", "a", ";", " ", "}">>

\* { var a = 1; a = 2; var b = 3; print b; }
P_assign_then_local ==
  <<"{", " ", "v", "a", "r", " ", "a", " ", "=", " ", "1", ";", " ", "a",
    " ", "=", " ", "2", ";", " ", "v", "a", "r", " ", "b", " ", "=", " ",
    "3", ";", " ", "p", "r", "i", "n", "t", " ", "b", ";", " ", "}">>

\* { var a = 1; a = 2; print a; }
P_local_assign ==
  <<"{", " ", "v", "a", "r", " ", "a", " ", "=", " ", "1", ";", " ", "a",
    " ", "=", " ", "2", ";", " ", "p", "r", "i", "n", "t", " ", "a", ";",
    " ", "}">>

\* { var a = 1; var b = 2; a = b + 5; print a; print b; }
P_local_assign_lower ==
  <<"{", " ", "v", "a", "r", " ", "a", " ", "=", " ", "1", ";", " ", "v",
    "a", "r", " ", "b", " ", "=", " ", "2", ";", " ", "a", " ", "=", " ",
    "b", " ", "+", " ", "5", ";", " ", "p", "r", "i", "n", "t", " ", "a",
    ";", " ", "p", "r", "i", "n", "t", " ", "b", ";", " ", "}">>

\* var x = 7; { var a = "s"; var b = 2; b = a + "t"; print b; print x; }
P_local_assign_text ==
  <<"v", "a", "r", " ", "x", " ", "=", " ", "7", ";", " ", "{", " ", "v",
    "a", "r", " ", "a", " ", "=", " ", "\"", "s", "\"", ";", " ", "v", "a",
    "r", " ", "b", " ", "=", " ", "2", ";", " ", "b", " ", "=", " ", "a",
    " ", "+", " ", "\"", "t", "\"", ";", " ", "p", "r", "i", "n", "t", " ",
    "b", ";", " ", "p", "r", "i", "n", "t", " ", "x", ";", " ", "}">>

LocalPrograms ==
  {P_expression_then_local, P_assign_then_local, P_local_assign,
   P_local_assign_lower, P_local_assign_text}

\* ------------------------------------------------------------------------
\* Sources with expression statements
\* ------------------------------------------------------------------------

\* 1;
P_expression_statement ==
  <<"1", ";">>

\* 1 + 2; print 4;
P_expression_then_print ==
  <<"1", " ", "+", " ", "2", ";", " ", "p", "r", "i", "n", "t", " ", "4",
    ";">>

\* { var a = 1; 2; }
P_expression_in_block ==
  <<"{", " ", "v", "a", "r", " ", "a", " ", "=", " ", "1", ";", " ", "2",
    ";", " ", "}">>

\* true - 1;
P_expression_mismatch ==
  <<"t", "r", "u", "e", " ", "-", " ", "1", ";">>

ExpressionStatementPrograms ==
  {P_expression_statement, P_expression_then_print,
   P_expression_in_block, P_expression_mismatch}

\* ------------------------------------------------------------------------
\* Sources with malformed declarations
\* ------------------------------------------------------------------------

\* var 1 2;
P_var_1_2 ==
  <<"v", "a", "r", " ", "1", " ", "2", ";">>

\* var 1 2; 1 + ;
P_two_malformed ==
  <<"v", "a", "r", " ", "1", " ", "2", ";", " ", "1", " ", "+", " ", ";">>

\* { } 1 + ;
P_malformed_later ==
  <<"{", " ", "}", " ", "1", " ", "+", " ", ";">>

\* var 1 @ ;
P_sync_error_token ==
  <<"v", "a", "r", " ", "1", " ", "@", " ", ";">>

\* var 1 @ ; { } 1 + ;
P_sync_swallows ==
  <<"v", "a", "r", " ", "1", " ", "@", " ", ";", " ", "{", " ", "}", " ",
    "1", " ", "+", " ", ";">>

\* print print 1;
P_print_print ==
  <<"p", "r", "i", "n", "t", " ", "p", "r", "i", "n", "t", " ", "1", ";">>

MalformedPrograms ==
  {P_var_1_2, P_two_malformed, P_malformed_later, P_sync_error_token,
   P_sync_swallows, P_print_print}

\* ------------------------------------------------------------------------
\* The derived comparison operators on integers: print a >= b; and so on
\* ------------------------------------------------------------------------

MaxOperand == 2

Operands == (0 - MaxOperand)..MaxOperand

SignedLit(n) == IF n < 0 THEN <<"-">> \o Lit(0 - n) ELSE Lit(n)

\* The text of each derived operator and its mathematical meaning.
Meaning(o, a, b) ==
  CASE o = <<">", "=">> -> a >= b
    [] o = <<"<", "=">> -> a <= b
    [] o = <<"!", "=">> -> a # b

DerivedOperators == {<<">", "=">>, <<"<", "=">>, <<"!", "=">>}

DerivedCases ==
  {[text |-> PrintOf(SignedLit(a) \o <<" ">> \o o \o <<" ">> \o SignedLit(b)),
    value |-> Meaning(o, a, b)] :
     a \in Operands, b \in Operands, o \in DerivedOperators}

DerivedPrograms == {c.text : c \in DerivedCases}

\* print -1 >= -1;
P_ge_equal == PrintOf(<<"-", "1", " ", ">", "=", " ", "-", "1">>)

RunSources ==
  {P_empty, P_shadow, P_dangle, P_eq_scenario, P_eq_same,
   P_def, P_set, P_read, P_def_then_fail, P_compile_error}
  \cup BlockPrograms \cup BinaryPrograms \cup UnaryPrograms
  \cup RedeclarePrograms \cup OwnInitializerPrograms
  \cup NoPrefixPrograms \cup BadTargetPrograms \cup ManyConstantsPrograms
  \cup ArithmeticPrograms \cup {P_concat, P_concat_same} \cup KeywordPrograms
  \cup ScanErrorPrograms \cup NoScanErrorPrograms
  \cup NotPrograms
  \cup OrderPrograms
  \cup TerminationPrograms
  \cup LocalPrograms
  \cup ExpressionStatementPrograms
  \cup MalformedPrograms
  \cup DerivedPrograms

SessionSources ==
  {P_def, P_set, P_read, P_def_then_fail, P_compile_error, P_dangle,
   P_error_then_panic}

\* ------------------------------------------------------------------------
\* The state machine: one VM, driven as main.rs drives it.
\* ------------------------------------------------------------------------

VARIABLES
  chunk, ip, stack, globals, heap,     \* the fields of struct VM
  DEBUG_TRACE_EXECUTION,               \* the static mut flag of vm.rs
  pc, result, out,                     \* control position, last result, stdout
  source, calls,                       \* the last source interpreted, call count
  heap_calls                           \* the calls made on the Heap directly, in order

vars == <<chunk, ip, stack, globals, heap, DEBUG_TRACE_EXECUTION,
          pc, result, out, source, calls, heap_calls>>

MaxCalls == 3

VM ==
  [chunk |-> chunk, ip |-> ip, stack |-> stack, globals |-> globals,
   heap |-> heap, out |-> out, pc |-> pc, result |-> result]

SetVM(v) ==
  /\ chunk' = v.chunk
  /\ ip' = v.ip
  /\ stack' = v.stack
  /\ globals' = v.globals
  /\ heap' = v.heap
  /\ out' = v.out
  /\ pc' = v.pc
  /\ result' = v.result

\* main: VM::new() followed by init_vm(); the flag starts false.
Init ==
  /\ chunk = init_vm(VM_new).chunk
  /\ ip = init_vm(VM_new).ip
  /\ stack = init_vm(VM_new).stack
  /\ globals = init_vm(VM_new).globals
  /\ heap = init_vm(VM_new).heap
  /\ out = <<>>
  /\ pc = "idle"
  /\ result = "None"
  /\ DEBUG_TRACE_EXECUTION = FALSE
  /\ source = <<>>
  /\ calls = 0
  /\ heap_calls = <<>>

\* A line entered at the REPL prompt (or the file of run_file) is interpreted.
Interpret ==
  /\ pc = "idle"
  /\ calls < MaxCalls
  /\ \E src \in SessionSources :
       /\ SetVM(interpret(VM, src))
       /\ source' = src
  /\ calls' = calls + 1
  /\ UNCHANGED <<DEBUG_TRACE_EXECUTION, heap_calls>>

\* A single interpret call on the fresh VM, over the wide set of sources.
InterpretOnce ==
  /\ pc = "idle"
  /\ calls = 0
  /\ \E src \in RunSources :
       /\ SetVM(interpret(VM, src))
       /\ source' = src
  /\ calls' = calls + 1
  /\ UNCHANGED <<DEBUG_TRACE_EXECUTION, heap_calls>>

\* One iteration of the loop of run.
Step ==
  /\ pc = "running"
  /\ SetVM(run_step(VM, DEBUG_TRACE_EXECUTION))
  /\ UNCHANGED <<DEBUG_TRACE_EXECUTION, source, calls, heap_calls>>

\* The public init_vm called between two interpret calls.
InitVm ==
  /\ pc = "idle"
  /\ SetVM(init_vm(VM))
  /\ UNCHANGED <<DEBUG_TRACE_EXECUTION, source, calls, heap_calls>>

\* The REPL directives `stack` and `nostack`.
ReplStack ==
  /\ pc = "idle"
  /\ ~DEBUG_TRACE_EXECUTION
  /\ DEBUG_TRACE_EXECUTION' = TRUE
  /\ UNCHANGED <<chunk, ip, stack, globals, heap, pc, result, out, source, calls,
               heap_calls>>

ReplNoStack ==
  /\ pc = "idle"
  /\ DEBUG_TRACE_EXECUTION
  /\ DEBUG_TRACE_EXECUTION' = FALSE
  /\ UNCHANGED <<chunk, ip, stack, globals, heap, pc, result, out, source, calls,
               heap_calls>>

Next == Interpret \/ Step \/ InitVm \/ ReplStack \/ ReplNoStack

Spec == Init /\ [][Next]_vars

NextRun == InterpretOnce \/ Step \/ ReplStack \/ ReplNoStack

SpecRun == Init /\ [][NextRun]_vars

\* A run scheduled as the loop of run is: an iteration that can be taken is
\* taken.
SpecRunFair == SpecRun /\ WF_vars(Step)

\* ------------------------------------------------------------------------
\* Chunks with jumps.  The compiler emits no Jump, JumpIfFalse or Loop, so
\* these instructions run only in a chunk a caller stores in the public
\* field VM::chunk before calling the public VM::run.
\* ------------------------------------------------------------------------

MaxOffset == 3

\* The instructions that push the condition the jump tests.
Conditions == {Op0("Nil"), Op0("True"), Op0("False"), Op1("Constant", 0)}

Jumps ==
  {Op1(name, d) : name \in {"JumpIfFalse", "Jump"}, d \in 0..MaxOffset}

JumpTails == {<<>>, <<Op0("Nil"), Op0("Not"), Op0("Pop")>>}

JumpChunks ==
  {[code |-> <<cond, jump>> \o tail, constants |-> <<Number([num |-> 1, den |-> 1])>>] :
     cond \in Conditions, jump \in Jumps, tail \in JumpTails}

\* vm.chunk = c; vm.ip = 0; vm.stack.clear(); then vm.run().
RunChunk ==
  /\ pc = "idle"
  /\ calls = 0
  /\ \E c \in JumpChunks : chunk' = c
  /\ ip' = 0
  /\ stack' = <<>>
  /\ pc' = "running"
  /\ result' = "None"
  /\ calls' = calls + 1
  /\ UNCHANGED <<globals, heap, out, source, DEBUG_TRACE_EXECUTION, heap_calls>>

NextChunk == RunChunk \/ Step \/ ReplStack \/ ReplNoStack

SpecChunk == Init /\ [][NextChunk]_vars

\* ------------------------------------------------------------------------
\* The Heap on its own: any sequence of allocate, free and mark calls, free
\* and mark on handles allocate has returned (live or freed already).
\* ------------------------------------------------------------------------

MaxHeapCalls == 5

HeapTexts == {<<"s">>, <<"t">>}

HeapAllocate ==
  /\ Len(heap_calls) < MaxHeapCalls
  /\ \E data \in HeapTexts :
       /\ heap' = allocate(heap, data).heap
       /\ heap_calls' = Append(heap_calls,
                               [call |-> "allocate", id |-> allocate(heap, data).id])
  /\ UNCHANGED <<chunk, ip, stack, globals, DEBUG_TRACE_EXECUTION, pc, result, out,
                 source, calls>>

HeapFree ==
  /\ Len(heap_calls) < MaxHeapCalls
  /\ \E id \in 0..(heap.id_counter - 1) :
       /\ heap' = free(heap, id)
       /\ heap_calls' = Append(heap_calls, [call |-> "free", id |-> id])
  /\ UNCHANGED <<chunk, ip, stack, globals, DEBUG_TRACE_EXECUTION, pc, result, out,
                 source, calls>>

HeapMark ==
  /\ Len(heap_calls) < MaxHeapCalls
  /\ \E id \in 0..(heap.id_counter - 1) :
       /\ heap' = mark(heap, id)
       /\ heap_calls' = Append(heap_calls, [call |-> "mark", id |-> id])
  /\ UNCHANGED <<chunk, ip, stack, globals, DEBUG_TRACE_EXECUTION, pc, result, out,
                 source, calls>>

NextHeap == HeapAllocate \/ HeapFree \/ HeapMark

SpecHeap == Init /\ [][NextHeap]_vars

\* ------------------------------------------------------------------------
\* Vocabulary of the properties
\* ------------------------------------------------------------------------

NumberText(i) == [kind |-> "print", text |-> nat_to_chars(i)]
TrueText == [kind |-> "print", text |-> <<"t", "r", "u", "e">>]
FalseText == [kind |-> "print", text |-> <<"f", "a", "l", "s", "e">>]

\* The instruction the next iteration of run fetches.
Fetched == chunk.code[ip + 1]

\* The next step executes an instruction named in ops: the loop is running,
\* ip indexes the code and the trace printed before the fetch does not panic.
Executes(ops) ==
  /\ pc = "running"
  /\ ip < Len(chunk.code)
  /\ Fetched.op \in ops
  /\ ~(DEBUG_TRACE_EXECUTION /\ debug_trace_panics(VM))

\* The operands of a binary instruction: a below b, b on top.
OperandA == stack[Len(stack) - 1]
OperandB == stack[Len(stack)]
BelowOperands == SubSeq(stack, 1, Len(stack) - 2)

\* The call of interpret ends with this step.
Returns == pc = "running" /\ pc' # "running"

ReturnsWith(r) == pc = "running" /\ pc' = "idle" /\ result' = r

Handles(values) == {values[i].h : i \in {j \in DOMAIN values : values[j].t = "Obj"}}

\* The text of the global name a global instruction refers to.
GlobalName(instruction) == get(heap, chunk.constants[instruction.a + 1].h)

\* This step is a call of interpret.
Called == pc = "idle" /\ calls' = calls + 1

\* The messages the compiler reported in the call that produced lines.
Reported(lines) ==
  {lines[i].msg : i \in {j \in DOMAIN lines : lines[j].kind = "compile_error"}}

\* The texts written to standard output among lines.
Printed(lines) == {i \in DOMAIN lines : lines[i].kind = "print"}

\* ------------------------------------------------------------------------
\* Properties
\* ------------------------------------------------------------------------

\* C1: run never fetches past the end of the code: whenever the loop is about
\* to fetch with ip >= len(code), also at entry with an empty chunk (the
\* empty source, `{}`), the run returns Ok.
C1_NoFetchPastEnd ==
  [][(pc = "running" /\ ip >= Len(chunk.code)) => ReturnsWith("Ok")]_vars

\* C2: the identifier after the closing brace of `var x = 10; { var x = 20;
\* print x; } print x;` compiles to a global access, and on a fresh VM with
\* tracing off the call prints 20 then 10 and returns Ok.
C2_LocalEndsWithBlock ==
  /\ [](source = P_shadow /\ pc = "running"
          => chunk.code[Len(chunk.code) - 1].op = "GetGlobal")
  /\ [][(source = P_shadow /\ ~DEBUG_TRACE_EXECUTION /\ Returns)
          => (ReturnsWith("Ok") /\ out' = <<NumberText(20), NumberText(10)>>)]_vars

\* C3: scope discipline: a program made of blocks (single, sibling, nested)
\* that declare and print their locals runs, with tracing off, to Ok and
\* leaves the stack at the depth it had before the first block, 0.
C3_ScopeDiscipline ==
  [][(source \in BlockPrograms /\ ~DEBUG_TRACE_EXECUTION /\ Returns)
       => (ReturnsWith("Ok") /\ stack' = <<>>)]_vars

\* C4: no dangling handles: every Obj(h) on the operand stack, in the globals
\* map or in the constant pool of the current chunk has an entry in the Heap.
C4_NoDanglingHandles ==
  pc # "panicked" =>
    /\ Handles(stack) \subseteq DOMAIN heap.values
    /\ Handles(chunk.constants) \subseteq DOMAIN heap.values
    /\ \A n \in DOMAIN globals :
         globals[n].t = "Obj" => globals[n].h \in DOMAIN heap.values

\* C5: Subtract, Multiply, Divide, Greater and Less return RuntimeError
\* whenever the left or the right operand is not a Number.
C5_NumericOperandsRequired ==
  [][(/\ Executes({"Subtract", "Multiply", "Divide", "Greater", "Less"})
      /\ Len(stack) >= 2
      /\ (OperandA.t # "Number" \/ OperandB.t # "Number"))
       => ReturnsWith("RuntimeError")]_vars

AddPairs ==
  {<<"Number", "Number">>, <<"Obj", "Obj">>, <<"Number", "Obj">>, <<"Obj", "Number">>}

\* C6: Add returns RuntimeError for every operand pair other than
\* number+number, string+string, number+string and string+number.
C6_AddRejectsOtherPairs ==
  [][(/\ Executes({"Add"})
      /\ Len(stack) >= 2
      /\ <<OperandA.t, OperandB.t>> \notin AddPairs)
       => ReturnsWith("RuntimeError")]_vars

\* C7: Equal pushes Bool(false) for operands of different variants, whichever
\* is the left one, and for two Bools, two Numbers or two Nils it pushes
\* whether the scalars are equal.
C7_EqualByVariant ==
  [][(/\ Executes({"Equal"})
      /\ Len(stack) >= 2
      /\ (OperandA.t # OperandB.t \/ OperandA.t # "Obj"))
       => stack' = Append(BelowOperands,
                          Bool(/\ OperandA.t = OperandB.t
                               /\ CASE OperandA.t = "Number" ->
                                         f64_eq(OperandA.n, OperandB.n)
                                    [] OperandA.t = "Bool" -> OperandA.b = OperandB.b
                                    [] OTHER -> TRUE))]_vars

\* C8: two Obj operands with live String entries compare equal iff their texts
\* are equal, whether or not the handles are the same; a Number and a string
\* compare unequal; Equal leaves the Heap as it is; and with tracing off
\* `print 1 == 1; print "a" == "a"; print 1 == "1";` prints true, true, false.
C8_StringEqualityByText ==
  /\ [][(/\ Executes({"Equal"})
         /\ Len(stack) >= 2
         /\ OperandA.t = "Obj" /\ OperandB.t = "Obj"
         /\ has(heap, OperandA.h) /\ has(heap, OperandB.h))
          => stack' = Append(BelowOperands,
                             Bool(heap.values[OperandA.h].data
                                    = heap.values[OperandB.h].data))]_vars
  /\ [][(/\ Executes({"Equal"})
         /\ Len(stack) >= 2
         /\ {OperandA.t, OperandB.t} = {"Number", "Obj"})
          => stack' = Append(BelowOperands, Bool(FALSE))]_vars
  /\ [][Executes({"Equal"}) => heap' = heap]_vars
  /\ [][(source = P_eq_scenario /\ ~DEBUG_TRACE_EXECUTION /\ Returns)
          => (ReturnsWith("Ok") /\ out' = <<TrueText, TrueText, FalseText>>)]_vars

\* C8 witness: the scenario has run to its end; its second Equal compared two
\* distinct handles of equal text.
C8_Witness ==
  /\ source = P_eq_scenario
  /\ pc = "idle"
  /\ result = "Ok"
  /\ out = <<TrueText, TrueText, FalseText>>
  /\ Cardinality({h \in DOMAIN heap.values : heap.values[h].data = <<"a">>}) = 2

\* C9: globals persist across interpret calls: no step removes a global, a
\* global changes its value only by a DefineGlobal or SetGlobal of its name
\* (to the value popped), whatever the results of the calls and also across
\* init_vm; and GetGlobal of a defined name pushes the value bound to it.
C9_GlobalsPersist ==
  /\ [][\A n \in DOMAIN globals :
          /\ n \in DOMAIN globals'
          /\ globals'[n] # globals[n]
               => /\ Executes({"DefineGlobal", "SetGlobal"})
                  /\ GlobalName(Fetched) = n
                  /\ globals'[n] = stack[Len(stack)]]_vars
  /\ [][(Executes({"GetGlobal"}) /\ GlobalName(Fetched) \in DOMAIN globals)
          => (/\ stack' = Append(stack, globals[GlobalName(Fetched)])
              /\ pc' # "panicked")]_vars

\* C9 witness: the third call reads x as last assigned, after a call that
\* defined y and ended in RuntimeError.
C9_Witness ==
  /\ calls = 3
  /\ source = P_read
  /\ pc = "idle"
  /\ result = "Ok"
  /\ out = <<NumberText(2)>>
  /\ <<"y">> \in DOMAIN globals

\* C10: SetGlobal of a name that is not in globals returns RuntimeError,
\* leaves globals as they were and the operand stack empty; `x = 1;` on a
\* fresh VM returns RuntimeError.
C10_AssignUndefinedFails ==
  /\ [][(/\ Executes({"SetGlobal"})
         /\ stack # <<>>
         /\ GlobalName(Fetched) \notin DOMAIN globals)
          => (/\ ReturnsWith("RuntimeError")
              /\ globals' = globals
              /\ stack' = <<>>)]_vars
  /\ [][(source = P_set /\ calls = 1 /\ Returns)
          => (ReturnsWith("RuntimeError") /\ globals' = globals)]_vars

\* C10 witness: `x = 1;` on the fresh VM has ended in RuntimeError with x
\* still undefined.
C10_Witness ==
  /\ calls = 1
  /\ source = P_set
  /\ pc = "idle"
  /\ result = "RuntimeError"
  /\ stack = <<>>
  /\ DOMAIN globals = {}

\* C11: a call of interpret whose compilation returns with an error recorded
\* returns CompileError at once: globals, operand stack, chunk and ip are
\* what they were before the call and nothing is written to standard output.
C11_CompileErrorLeavesVM ==
  [][(Called /\ Reported(out') # {} /\ pc' # "panicked")
       => (/\ pc' = "idle" /\ result' = "CompileError"
           /\ globals' = globals /\ stack' = stack
           /\ chunk' = chunk /\ ip' = ip
           /\ Printed(out') = {})]_vars

\* C11 witness: `print ;` was rejected as the second call, after a call that
\* defined x and left its chunk and ip in the VM.
C11_Witness ==
  /\ calls = 2
  /\ source = P_compile_error
  /\ pc = "idle"
  /\ result = "CompileError"
  /\ Reported(out) # {}
  /\ <<"x">> \in DOMAIN globals
  /\ chunk.code # <<>>
  /\ ip = Len(chunk.code)

AlreadyDeclared == "Variable with this name already declared in this scope."

\* C12: "Variable with this name already declared in this scope." is reported
\* for `{ var a = 1; var a = 2; }`, which is a CompileError, and is not
\* reported when the same-named local belongs to an enclosing scope
\* (`{ var a = 1; { var a = 2; } }`) or to a closed sibling block
\* (`{ var a = 1; } { var a = 2; }`).
C12_RedeclarationInOpenScopeOnly ==
  /\ source = P_redeclare
       => (pc = "idle" /\ result = "CompileError" /\ AlreadyDeclared \in Reported(out))
  /\ source \in {P_redeclare_enclosing, P_redeclare_sibling}
       => AlreadyDeclared \notin Reported(out)

OwnInitializer == "Cannot read local variable in its own initializer."

\* C13: a block whose local is read in its own initializer, the identifier
\* resolving to a Local of depth -1 (`{ var a = a; }`, also under a
\* same-named local of the enclosing block and inside a sum), is reported with
\* "Cannot read local variable in its own initializer." and the call returns
\* CompileError.
C13_OwnInitializerRejected ==
  source \in OwnInitializerPrograms
    => (/\ pc = "idle"
        /\ result = "CompileError"
        /\ OwnInitializer \in Reported(out))

\* C13 witness: `{ var a = 1; { var a = a; } }` was rejected with the message.
C13_Witness ==
  /\ source = P_own_initializer_nested
  /\ result = "CompileError"
  /\ OwnInitializer \in Reported(out)
  /\ chunk.code = <<>>

\* C14: a source in which a token without a prefix rule stands where an
\* expression is expected (`print +;`, `+;`, `};`) is reported with
\* "Expect expression." and the call returns CompileError.
C14_ExpectExpression ==
  source \in NoPrefixPrograms
    => (/\ pc = "idle"
        /\ result = "CompileError"
        /\ "Expect expression." \in Reported(out))

\* C15: a source in which an `=` is left unconsumed after an expression parsed
\* at precedence <= Assignment (`a + b = c;`, `1 = 2;`) is reported with
\* "Invalid assignment target." and the call returns CompileError.
C15_InvalidAssignmentTarget ==
  source \in BadTargetPrograms
    => (/\ pc = "idle"
        /\ result = "CompileError"
        /\ "Invalid assignment target." \in Reported(out))

\* C16: every chunk that compile hands to the VM has at most 256 constants: a
\* compilation that adds a 257th entry, be it a number literal, a string
\* literal or an identifier, reports "Too many constants in one chunk." and
\* fails.
C16_AtMost256Constants ==
  /\ Len(chunk.constants) <= MaxConstantIndex + 1
  /\ source \in ManyConstantsPrograms
       => (/\ pc = "idle"
           /\ result = "CompileError"
           /\ "Too many constants in one chunk." \in Reported(out))

\* C17: the bytecode compiled for an expression of number literals,
\* parentheses, unary `-` and binary `+ - * /` leaves on the stack the value
\* of the expression read with the usual precedence and left associativity;
\* with tracing off the program prints that value and returns Ok, so
\* `print 1 + 2 * 3;` prints 7.
C17_ArithmeticPrecedence ==
  /\ [](\A c \in ArithmeticCases :
          (source = c.text /\ Executes({"Print"})) => stack = <<Number(c.value)>>)
  /\ [][\A c \in ArithmeticCases :
          (source = c.text /\ ~DEBUG_TRACE_EXECUTION /\ Returns)
            => (/\ ReturnsWith("Ok")
                /\ out' = <<[kind |-> "print", text |-> to_string(c.value)]>>)]_vars

\* C17 witness: `print 1 + 2 * 3;` has printed 7.
C17_Witness ==
  /\ source = P_precedence
  /\ source \in ArithmeticPrograms
  /\ pc = "idle"
  /\ result = "Ok"
  /\ out = <<NumberText(7)>>

\* The text an operand of Add contributes: the decimal form of a Number, the
\* text of a string.
OperandText(value) ==
  IF value.t = "Number" THEN to_string(value.n) ELSE heap.values[value.h].data

OperandLive(value) == value.t = "Obj" => has(heap, value.h)

\* C18: Add on two Numbers, two strings, or a Number and a string pops both
\* operands and pushes exactly one result: the sum of two Numbers, otherwise a
\* newly allocated Heap string whose text is the left operand's text followed
\* by the right operand's, a Number contributing its decimal form; with
\* tracing off `var a = "hi"; var b = " there"; print a + b;` prints hi there.
C18_AddResult ==
  /\ [][(/\ Executes({"Add"})
         /\ Len(stack) >= 2
         /\ <<OperandA.t, OperandB.t>> \in AddPairs
         /\ OperandLive(OperandA) /\ OperandLive(OperandB))
          => (/\ pc' = "running" \/ ReturnsWith("Ok")
              /\ Len(stack') = Len(stack) - 1
              /\ SubSeq(stack', 1, Len(stack) - 2) = BelowOperands
              /\ IF OperandA.t = "Number" /\ OperandB.t = "Number"
                 THEN stack'[Len(stack')] = Number(f64_add(OperandA.n, OperandB.n))
                 ELSE /\ stack'[Len(stack')].t = "Obj"
                      /\ ~has(heap, stack'[Len(stack')].h)
                      /\ has(heap', stack'[Len(stack')].h)
                      /\ heap'.values[stack'[Len(stack')].h].data
                           = OperandText(OperandA) \o OperandText(OperandB))]_vars
  /\ [][(source = P_concat /\ ~DEBUG_TRACE_EXECUTION /\ Returns)
          => (/\ ReturnsWith("Ok")
              /\ out' = <<[kind |-> "print",
                           text |-> <<"h", "i", " ", "t", "h", "e", "r", "e">>]>>)]_vars

\* C18 witness: the scenario has printed hi there; its Add allocated the
\* result after the two names and the two literals.
C18_Witness ==
  /\ source = P_concat
  /\ pc = "idle"
  /\ result = "Ok"
  /\ out = <<[kind |-> "print", text |-> <<"h", "i", " ", "t", "h", "e", "r", "e">>]>>
  /\ heap.id_counter = 7

\* C19: for an identifier-shaped lexeme at any position of the source, the
\* last characters included, scan_token returns the kind the table of the 16
\* keywords gives for the whole lexeme, Identifier when it is not in the table.
C19_KeywordTableLookup ==
  \A c \in KeywordCases :
    source = c.text =>
      /\ ~TokenAt(Scanner_new, source, c.start).scanner.panicked
      /\ TokenAt(Scanner_new, source, c.start).token
           = [token_type |-> KeywordLookup(c.word), start |-> c.start,
              length |-> Len(c.word), line |-> 1]

\* C20: a source with an unexpected character or an unterminated string
\* outside a comment (`@`, `print 1 # 2;`, `print "ab`, a lone U+00E9) is
\* reported as a compile error and the call returns CompileError.
C20_ScanErrorIsCompileError ==
  source \in ScanErrorPrograms
    => (/\ pc = "idle"
        /\ result = "CompileError"
        /\ Reported(out) # {})

\* C21: Not replaces a Bool on top of the stack by its negation and Nil by
\* true, and returns RuntimeError for a Number or a string; with tracing off
\* `print !!true;` prints true, `print !!false;` prints false and
\* `print !nil; print !false; print !true;` prints true, true, false.
C21_NotOnBoolAndNil ==
  /\ [][(Executes({"Not"}) /\ stack # <<>> /\ OperandB.t = "Bool")
          => stack' = Append(SubSeq(stack, 1, Len(stack) - 1),
                             Bool(~OperandB.b))]_vars
  /\ [][(Executes({"Not"}) /\ stack # <<>> /\ OperandB.t = "Nil")
          => stack' = Append(SubSeq(stack, 1, Len(stack) - 1), Bool(TRUE))]_vars
  /\ [][(Executes({"Not"}) /\ stack # <<>> /\ OperandB.t \in {"Number", "Obj"})
          => ReturnsWith("RuntimeError")]_vars
  /\ [][(source = P_not_not_true /\ ~DEBUG_TRACE_EXECUTION /\ Returns)
          => (ReturnsWith("Ok") /\ out' = <<TrueText>>)]_vars
  /\ [][(source = P_not_not_false /\ ~DEBUG_TRACE_EXECUTION /\ Returns)
          => (ReturnsWith("Ok") /\ out' = <<FalseText>>)]_vars
  /\ [][(source = P_not_scenario /\ ~DEBUG_TRACE_EXECUTION /\ Returns)
          => (ReturnsWith("Ok") /\ out' = <<TrueText, TrueText, FalseText>>)]_vars

\* C21 witness: the scenario has run to its end and printed true, true, false.
C21_Witness ==
  /\ source = P_not_scenario
  /\ pc = "idle"
  /\ result = "Ok"
  /\ ~DEBUG_TRACE_EXECUTION
  /\ out = <<TrueText, TrueText, FalseText>>

\* What `var x = 1; print x; x = 2; print x; var y = x + 1; print y;
\* var x = 5; print x;` prints when its statements take effect in order.
OrderOutput == <<NumberText(1), NumberText(2), NumberText(3), NumberText(5)>>

\* C22: effects occur in the order of the bytecode: every iteration of run
\* that does not panic executes the instruction at ip and leaves ip one
\* higher, so no instruction is executed twice or skipped; and with tracing
\* off the prints and global writes of the program above happen in source
\* order: at every moment the output is a prefix of 1, 2, 3, 5 and the call
\* ends with Ok, all four lines and x = 5, y = 3.
C22_EffectsInBytecodeOrder ==
  /\ [][(pc = "running" /\ pc' # "panicked") => ip' = ip + 1]_vars
  /\ []((source = P_order /\ ~DEBUG_TRACE_EXECUTION)
          => out = SubSeq(OrderOutput, 1, Len(out)))
  /\ [][(source = P_order /\ ~DEBUG_TRACE_EXECUTION /\ Returns)
          => (/\ ReturnsWith("Ok")
              /\ out' = OrderOutput
              /\ globals' = (<<"x">> :> Number(Val(5))) @@ (<<"y">> :> Number(Val(3))))]_vars
  /\ [][(source = P_order_fail /\ ~DEBUG_TRACE_EXECUTION /\ Returns)
          => (/\ ReturnsWith("RuntimeError")
              /\ Printed(out') = {1})]_vars

\* C22 witness: the program has run to its end with its four lines printed.
C22_Witness ==
  /\ source = P_order
  /\ pc = "idle"
  /\ result = "Ok"
  /\ out = OrderOutput
  /\ ip = Len(chunk.code)

\* The loop of compile on src, before its first turn.
CompileStart(src, h) ==
  [p |-> Parser_advance(Parser_new(h), src), done |-> FALSE]

\* The loop of compile on src ends by its own test, the match of EOF.
CompileEnds(src, h) ==
  compile_turns(CompileStart(src, h), src, Len(src) + 1).done

\* The turn that follows n turns ends the loop, or unwinds, or leaves a later
\* token as the current one.
TurnConsumes(src, h, n) ==
  Bind(compile_turns(CompileStart(src, h), src, n), LAMBDA r :
    \/ r.done
    \/ r.p.panicked
    \/ Bind(compile_turn(r, src), LAMBDA r1 :
          \/ r1.done
          \/ r1.p.panicked
          \/ r1.p.current.start > r.p.current.start))

JumpOps == {"Jump", "JumpIfFalse", "Loop", "Return"}

\* C23: interpret terminates: the loop of compile ends by matching EOF and
\* each of its turns before that consumes a token (checked turn by turn on
\* the sources other than the 257-statement ones); the chunk handed to run
\* holds no Jump, JumpIfFalse, Loop or Return; an iteration of run that does
\* not end the run leaves ip one higher and inside the code; and every run
\* that has started ends.
C23_InterpretTerminates ==
  /\ [][Called => CompileEnds(source', heap)]_vars
  /\ [][(Called /\ source' \notin ManyConstantsPrograms)
          => \A n \in 0..Len(source') : TurnConsumes(source', heap, n)]_vars
  /\ [](\A i \in 1..Len(chunk.code) : chunk.code[i].op \notin JumpOps)
  /\ [][(pc = "running" /\ pc' = "running")
          => (ip' = ip + 1 /\ ip' < Len(chunk.code))]_vars
  /\ [](pc = "running" => ip <= Len(chunk.code))
  /\ (pc = "running" ~> pc # "running")

\* C23 witness: `{ print ;` ended at EOF inside the block and inside the
\* print statement, and the call returned.
C23_Witness ==
  /\ source = P_open_block_error
  /\ pc = "idle"
  /\ result = "CompileError"
  /\ Reported(out) = {"Expect ';' after value.", "Expect '}' after block."}

\* The reports of runtime_error among lines.
RuntimeReports(lines) == {i \in DOMAIN lines : lines[i].kind = "error"}

\* C24: the iteration of run that returns RuntimeError writes one report,
\* leaves the operand stack empty and is the last of the run: ip stays just
\* after the failing instruction and nothing more is printed, so
\* `print 1; print -nil; print 2;` prints 1 only.
C24_RuntimeErrorClearsStack ==
  /\ [][ReturnsWith("RuntimeError")
          => (/\ stack' = <<>>
              /\ ip' = ip + 1
              /\ Len(out') = Len(out) + 1
              /\ SubSeq(out', 1, Len(out)) = out
              /\ RuntimeReports(out') = RuntimeReports(out) \cup {Len(out')})]_vars
  /\ []((pc = "idle" /\ result = "RuntimeError")
          => (stack = <<>> /\ Cardinality(RuntimeReports(out)) = 1
              /\ out[Len(out)].kind = "error"))
  /\ [][(pc = "idle" /\ result = "RuntimeError")
          => (stack' = stack /\ out' = out /\ ip' = ip)]_vars

\* C24 witness: `print 1; print -nil; print 2;` has failed in its second
\* statement with 1 printed, the stack empty and the third statement left.
C24_Witness ==
  /\ source = P_order_fail
  /\ pc = "idle"
  /\ result = "RuntimeError"
  /\ stack = <<>>
  /\ Printed(out) = {1}
  /\ ip < Len(chunk.code)

\* The calls of end_scope for the blocks that are statements of the top level
\* of src: start is the parser after begin_scope, p the parser after block,
\* which is the one statement hands to end_scope.
EndScopeCalls(src, h) ==
  {[start |-> begin_scope(Parser_advance(r.p, src)),
    p |-> block(begin_scope(Parser_advance(r.p, src)), src)] :
     r \in {t \in {compile_turns(CompileStart(src, h), src, n) : n \in 0..Len(src)} :
              ~t.done /\ ~t.p.panicked /\ t.p.current.token_type = "LeftBrace"}}

Pops(n) == [i \in 1..n |-> Op0("Pop")]

\* C25: end_scope lowers scope_depth by one, appends to the code one Pop for
\* each Local the block being closed declared, and leaves in the locals list
\* no Local deeper than the new scope_depth.
C25_EndScopeDropsLocals ==
  [][(Called /\ source' \in BlockPrograms)
       => \A c \in EndScopeCalls(source', heap) :
            /\ end_scope(c.p).scope_depth = c.p.scope_depth - 1
            /\ end_scope(c.p).code
                 = c.p.code \o Pops(Len(c.p.locals) - Len(c.start.locals))
            /\ \A i \in 1..Len(end_scope(c.p).locals) :
                 end_scope(c.p).locals[i].depth <= end_scope(c.p).scope_depth]_vars

\* C26: the index the compiler gives a local is its slot at run time:
\* whenever GetLocal(s) or SetLocal(s) executes, s is below the depth of the
\* stack, and with tracing off `1; { var a = 2; print a; }` prints 2 and
\* `{ var a = 1; a = 2; var b = 3; print b; }` prints 3.
C26_LocalIndexIsSlot ==
  /\ [][Executes({"GetLocal", "SetLocal"}) => Fetched.a < Len(stack)]_vars
  /\ [][(source = P_expression_then_local /\ ~DEBUG_TRACE_EXECUTION /\ Returns)
          => (ReturnsWith("Ok") /\ out' = <<NumberText(2)>>)]_vars
  /\ [][(source = P_assign_then_local /\ ~DEBUG_TRACE_EXECUTION /\ Returns)
          => (ReturnsWith("Ok") /\ out' = <<NumberText(3)>>)]_vars

\* C27: Print pops exactly one value whenever it executes, with the trace
\* flag set as with the flag clear: the stack after Print is the stack
\* before it without its top.
C27_PrintPopsInBothModes ==
  [][(Executes({"Print"}) /\ stack # <<>>)
       => stack' = SubSeq(stack, 1, Len(stack) - 1)]_vars

\* C28: an expression statement emits the code of its expression and no Pop,
\* and its value stays on the stack until the run ends: the chunks of `1;`,
\* `1 + 2; print 4;` and `true - 1;` hold no Pop; `1;` ends with 1 on the
\* stack; with tracing off `1 + 2; print 4;` ends with 3 on the stack and 4
\* printed; `{ var a = 1; 2; }` ends with the 2 still on the stack; and
\* `true - 1;` ends in RuntimeError or with one value on the stack.
C28_ExpressionValueStays ==
  /\ []((/\ source \in {P_expression_statement, P_expression_then_print,
                        P_expression_mismatch}
         /\ pc = "running")
          => \A i \in 1..Len(chunk.code) : chunk.code[i].op # "Pop")
  /\ [][(source = P_expression_statement /\ Returns)
          => (ReturnsWith("Ok") /\ stack' = <<Number(Val(1))>>)]_vars
  /\ [][(source = P_expression_then_print /\ ~DEBUG_TRACE_EXECUTION /\ Returns)
          => (/\ ReturnsWith("Ok")
              /\ stack' = <<Number(Val(3))>>
              /\ out' = <<NumberText(4)>>)]_vars
  /\ [][(source = P_expression_in_block /\ Returns)
          => (/\ ReturnsWith("Ok")
              /\ \E i \in 1..Len(stack') : stack'[i] = Number(Val(2)))]_vars
  /\ [][(source = P_expression_mismatch /\ Returns)
          => (ReturnsWith("RuntimeError")
              \/ (ReturnsWith("Ok") /\ Len(stack') = 1))]_vars

\* C29: DefineGlobal(k) pops one value and binds the name constants[k] to it,
\* also when the name is already defined, and a SetGlobal(k) of a defined
\* name does the same; every other entry of globals stays as it is, and
\* SetGlobal never adds a key.
C29_GlobalWrites ==
  /\ [][(Executes({"DefineGlobal"}) /\ stack # <<>>)
          => (/\ stack' = SubSeq(stack, 1, Len(stack) - 1)
              /\ globals' = (GlobalName(Fetched) :> OperandB) @@ globals
              /\ pc' # "panicked")]_vars
  /\ [][(/\ Executes({"SetGlobal"}) /\ stack # <<>>
         /\ GlobalName(Fetched) \in DOMAIN globals)
          => (/\ stack' = SubSeq(stack, 1, Len(stack) - 1)
              /\ globals' = [globals EXCEPT ![GlobalName(Fetched)] = OperandB]
              /\ pc' # "panicked"
              /\ result' # "RuntimeError")]_vars
  /\ [][Executes({"SetGlobal"}) => DOMAIN globals' = DOMAIN globals]_vars

\* C29 witness: in `var x = 1; print x; x = 2; print x; var y = x + 1;
\* print y; var x = 5; print x;` the second definition of x has overwritten
\* the 2 that the assignment had put there.
C29_Witness ==
  /\ source = P_order
  /\ pc = "running"
  /\ stack = <<>>
  /\ globals = (<<"x">> :> Number(Val(5))) @@ (<<"y">> :> Number(Val(3)))

\* C30: SetLocal(s) copies the top of the stack into slot s and pops nothing:
\* the depth and every other slot stay as they are, and so do globals and
\* the Heap.
C30_SetLocalCopiesTop ==
  [][(Executes({"SetLocal"}) /\ stack # <<>> /\ Fetched.a < Len(stack))
       => (/\ stack' = [stack EXCEPT ![Fetched.a + 1] = OperandB]
           /\ globals' = globals
           /\ heap' = heap
           /\ pc' # "panicked")]_vars

\* C30 witness: in `{ var a = 1; var b = 2; a = b + 5; print a; print b; }`
\* SetLocal(0) has copied the 7 into the slot of a, below b and the 7 itself.
C30_Witness ==
  /\ source = P_local_assign_lower
  /\ pc = "running"
  /\ ip > 0
  /\ chunk.code[ip].op = "SetLocal"
  /\ stack = <<Number(Val(7)), Number(Val(2)), Number(Val(7))>>

\* Where the jump the next step executes lands when it is taken or not.
Landing(taken) == ip + 1 + (IF taken THEN Fetched.a ELSE 0)

\* The step leaves the stack alone and sets ip to land; the run goes on when
\* land is inside the code and returns Ok when it is not.
JumpsTo(land) ==
  /\ stack' = stack
  /\ ip' = land
  /\ UNCHANGED <<globals, heap, out, chunk>>
  /\ IF land >= Len(chunk.code) THEN ReturnsWith("Ok") ELSE pc' = "running"

\* C31: JumpIfFalse(d) peeks the condition and leaves the stack as it is; it
\* lands d instructions beyond the next one iff the top is Nil or
\* Bool(false), and on the next one otherwise; Jump(d) always lands d beyond
\* the next one; a landing at or past the end of the code returns Ok without
\* a fetch.
C31_JumpEffects ==
  /\ [][(Executes({"JumpIfFalse"}) /\ stack # <<>>)
          => JumpsTo(Landing(OperandB \in {Nil, Bool(FALSE)}))]_vars
  /\ [][Executes({"Jump"}) => JumpsTo(Landing(TRUE))]_vars

\* C31 witness: `False; JumpIfFalse(2); Nil; Not; Pop` has jumped over Nil
\* and Not to the Pop, the condition still on the stack.
C31_Witness ==
  /\ chunk.code = <<Op0("False"), Op1("JumpIfFalse", 2),
                    Op0("Nil"), Op0("Not"), Op0("Pop")>>
  /\ pc = "running"
  /\ ip = 4
  /\ stack = <<Bool(FALSE)>>

\* The positions of heap_calls that are calls of the named function.
CallsOf(name) == {i \in DOMAIN heap_calls : heap_calls[i].call = name}

\* C32: handles are never reused: two allocate calls never return the same
\* handle, whatever was freed or marked in between; every live handle is
\* below id_counter; and a handle that was freed has no entry, also after
\* later allocations.
C32_HandlesNeverReused ==
  /\ \A i, j \in CallsOf("allocate") :
       i # j => heap_calls[i].id # heap_calls[j].id
  /\ \A h \in DOMAIN heap.values : h < heap.id_counter
  /\ \A i \in CallsOf("free") : ~has(heap, heap_calls[i].id)

\* C32 witness: handle 0 was allocated, marked and freed, and two later
\* allocations returned 1 and 2.
C32_Witness ==
  /\ [i \in DOMAIN heap_calls |-> heap_calls[i].call]
       = <<"allocate", "mark", "free", "allocate", "allocate">>
  /\ heap_calls[3].id = 0
  /\ DOMAIN heap.values = {1, 2}

\* The lexemes of the Identifier tokens the scanner finds in src from sc
\* on, in order, after those of acc.
RECURSIVE IdentifierLexemes(_, _, _)
IdentifierLexemes(sc, src, acc) ==
  Bind(scan_token(sc, src), LAMBDA r :
    IF r.scanner.panicked \/ r.token.token_type = "EOF" THEN acc
    ELSE IdentifierLexemes(r.scanner, src,
           IF r.token.token_type = "Identifier"
           THEN Append(acc, lexeme(src, r.token.start, r.token.length))
           ELSE acc))

GlobalOps == {"DefineGlobal", "GetGlobal", "SetGlobal"}

\* The instructions of code that index the constants.
ConstantRefs(code) ==
  {i \in DOMAIN code : code[i].op \in GlobalOps \cup {"Constant"}}

\* The names the global instructions of c refer to, in the order of the code;
\* h is the heap compile returned.
GlobalNames(c, h) ==
  LET at == {i \in DOMAIN c.code : c.code[i].op \in GlobalOps}
      nth_global(k) == CHOOSE i \in at : Cardinality({j \in at : j < i}) = k - 1
  IN [k \in 1..Cardinality(at) |-> get(h, c.constants[c.code[nth_global(k)].a + 1].h)]

Count(seq, x) == Cardinality({i \in DOMAIN seq : seq[i] = x})

\* The chunk c compiled from src into the heap h is well formed.
ChunkWellFormed(c, h, src) ==
  /\ \A i \in ConstantRefs(c.code) : c.code[i].a < Len(c.constants)
  /\ \A i \in DOMAIN c.code :
       c.code[i].op \in GlobalOps
         => /\ c.constants[c.code[i].a + 1].t = "Obj"
            /\ has(h, c.constants[c.code[i].a + 1].h)
  /\ src \notin ManyConstantsPrograms
       => Bind(IdentifierLexemes(Scanner_new, src, <<>>), LAMBDA names :
            Bind(GlobalNames(c, h), LAMBDA used :
              /\ \A k \in DOMAIN used : Count(names, used[k]) > 0
              /\ "{" \notin {src[i] : i \in DOMAIN src}
                   => \A k \in DOMAIN names :
                        Count(used, names[k]) = Count(names, names[k])))
  /\ src = P_many_identifiers
       => \A i \in DOMAIN c.code : get(h, c.constants[c.code[i].a + 1].h) = <<"x">>

\* C33: in every chunk compile produces, each Constant, DefineGlobal,
\* GetGlobal and SetGlobal holds an index below len(constants), and the
\* constant of a global instruction is the handle of a live Heap String whose
\* text is the lexeme of an identifier of the source; in a source without
\* blocks every identifier occurrence has its own global instruction (the
\* 257-statement sources are checked for the indices, and x;x;x;... for its
\* one name).
C33_ChunkIndicesAndNames ==
  [][(Called /\ pc' = "running") => ChunkWellFormed(chunk', heap', source')]_vars

\* C33 witness: the chunk of P_order is installed, with one global
\* instruction for each of the nine occurrences of x and y.
C33_Witness ==
  /\ source = P_order
  /\ pc = "running"
  /\ ip = 0
  /\ Cardinality({i \in DOMAIN chunk.code : chunk.code[i].op \in GlobalOps}) = 9
  /\ GlobalNames(chunk, heap)[1] = <<"x">>

\* The live handles whose String has the text name.
HandlesOf(name) == {h \in DOMAIN heap.values : get(heap, h) = name}

\* The instruction the next step executes, executed through the handle h in
\* place of its own constant.
ThroughHandle(h) ==
  execute([VM EXCEPT !.ip = ip + 1, !.chunk.constants = Append(@, Obj(h))],
          Op1(Fetched.op, Len(chunk.constants)), DEBUG_TRACE_EXECUTION)

\* The constant of the global instruction the next step executes is a live
\* handle.
NamesGlobal ==
  /\ Executes(GlobalOps)
  /\ Fetched.a < Len(chunk.constants)
  /\ chunk.constants[Fetched.a + 1].t = "Obj"
  /\ has(heap, chunk.constants[Fetched.a + 1].h)

\* C34: globals are keyed by text: a global instruction has the same effect
\* through every live handle whose String has the text of its own, handles
\* of earlier interpret calls included, and GetGlobal pushes the value bound
\* to the text.
C34_GlobalsKeyedByText ==
  /\ [][NamesGlobal
          => \A h \in HandlesOf(GlobalName(Fetched)) :
               /\ stack' = ThroughHandle(h).stack
               /\ globals' = ThroughHandle(h).globals
               /\ (pc' = "panicked") = (ThroughHandle(h).pc = "panicked")
               /\ (result' = "RuntimeError")
                    = (ThroughHandle(h).result = "RuntimeError")]_vars
  /\ [][(NamesGlobal /\ Fetched.op = "GetGlobal"
          /\ GlobalName(Fetched) \in DOMAIN globals)
          => stack' = Append(stack, globals[GlobalName(Fetched)])]_vars

\* C34 witness: `print x;` in a call after `var x = 2;` has read x through a
\* handle of its own chunk, not the handle 0 that defined it.
C34_Witness ==
  /\ source = P_read
  /\ pc = "running"
  /\ ip = 1
  /\ stack = <<Number(Val(2))>>
  /\ chunk.constants[1].h # 0
  /\ 0 \in HandlesOf(<<"x">>)

\* The call of declaration that follows n turns of the loop of compile on
\* src: before is the parser at the call, after the parser at its return.
\* called is false when the loop has ended or the parser has unwound.
DeclarationCall(src, h, n) ==
  Bind(compile_turns(CompileStart(src, h), src, n), LAMBDA r :
    IF r.done \/ r.p.panicked \/ r.p.current.token_type = "EOF"
    THEN [called |-> FALSE, before |-> r.p, after |-> r.p]
    ELSE [called |-> TRUE, before |-> r.p, after |-> declaration(r.p, src)])

\* The parser stands at a synchronisation point.
Synchronized(p) ==
  \/ p.previous.token_type = "Semicolon"
  \/ p.current.token_type \in SyncTokens
  \/ p.current.token_type = "EOF"

\* C35, as claimed: after every call of declaration returns panic_mode is
\* false; if the call recorded an error the parser stands after a `;`, or
\* before class, fun, var, for, if, while, print or return, or at EOF; and a
\* later erroneous declaration of the same source records its own error
\* (`1 + ;` records "Expect ';' after expression." after `{ }`, after
\* `var 1 2;` and after `var 1 @ ; { }`).
C35_SynchronizedAfterDeclaration ==
  /\ [][(Called /\ source' \notin ManyConstantsPrograms)
          => \A n \in 0..Len(source') :
               Bind(DeclarationCall(source', heap, n), LAMBDA d :
                 (d.called /\ ~d.after.panicked)
                   => /\ ~d.after.panic_mode
                      /\ Len(d.after.errors) > Len(d.before.errors)
                           => Synchronized(d.after))]_vars
  /\ [](source \in {P_malformed_later, P_two_malformed, P_sync_swallows}
          => "Expect ';' after expression." \in Reported(out))

\* C36, as claimed: panic mode prevents cascading diagnostics: a declaration
\* that is not a block (a block synchronises after each declaration inside
\* it) and holds no Error token records at most one error, and `var 1 2;`
\* produces exactly one message.
C36_NoCascadingDiagnostics ==
  /\ [][(Called /\ source' \notin ManyConstantsPrograms \cup ScanErrorPrograms
                 /\ source' \notin {P_sync_error_token, P_sync_swallows})
          => \A n \in 0..Len(source') :
               Bind(DeclarationCall(source', heap, n), LAMBDA d :
                 (d.called /\ d.before.current.token_type # "LeftBrace")
                   => Len(d.after.errors) <= Len(d.before.errors) + 1)]_vars
  /\ []((source = P_var_1_2 /\ pc = "idle")
          => out = <<[kind |-> "compile_error", msg |-> "Expect variable name."]>>)

\* C37: for all integers a and b of the range, `a >= b` (Less, Not),
\* `a <= b` (Greater, Not) and `a != b` (Equal, Not) leave exactly one value
\* on the stack, the Bool of their mathematical meaning, and with tracing
\* off the program prints it and returns Ok.
C37_DerivedOperators ==
  /\ [](\A c \in DerivedCases :
          (source = c.text /\ Executes({"Print"})) => stack = <<Bool(c.value)>>)
  /\ [][\A c \in DerivedCases :
          (source = c.text /\ ~DEBUG_TRACE_EXECUTION /\ Returns)
            => (/\ ReturnsWith("Ok")
                /\ out' = <<IF c.value THEN TrueText ELSE FalseText>>)]_vars

\* C37 witness: `print -1 >= -1;` is about to print the true that Less and
\* Not left.
C37_Witness ==
  /\ source = P_ge_equal
  /\ source \in DerivedPrograms
  /\ Executes({"Print"})
  /\ chunk.code[ip].op = "Not"
  /\ chunk.code[ip - 1].op = "Less"
  /\ stack = <<Bool(TRUE)>>

\* The number of stack values an instruction pops or peeks.
Consumes(op) ==
  IF op \in {"Pop", "Print", "Not", "Negate", "DefineGlobal", "SetGlobal", "SetLocal"}
  THEN 1
  ELSE IF op \in {"Equal", "Greater", "Less", "Add", "Subtract", "Multiply", "Divide"}
  THEN 2
  ELSE 0

\* C38, as claimed: in the run of a source compile accepted, the stack holds
\* before each instruction at least as many values as the instruction
\* consumes, so no pop or peek meets an empty stack.
C38_NoEmptyStackAccess ==
  (pc = "running" /\ ip < Len(chunk.code)) => Len(stack) >= Consumes(Fetched.op)

\* Nil, the Bools, some Numbers and every live string handle.
EqualOperands ==
  {Nil, Bool(TRUE), Bool(FALSE)}
    \cup {Number(Val(n)) : n \in 0..MaxOperand}
    \cup {Obj(h) : h \in DOMAIN heap.values}

\* The operand is no dangling handle.
Live(value) == value.t = "Obj" => has(heap, value.h)

\* C39, as claimed: equal is symmetric and reflexive over Nil, Bool, Number
\* and live string handles, and Equal pushes for a == b what equal returns
\* for b == a.
C39_EqualSymmetricReflexive ==
  /\ [](\A a, b \in EqualOperands :
          /\ equal(heap, a, b) = equal(heap, b, a)
          /\ equal(heap, a, a))
  /\ [][(Executes({"Equal"}) /\ Len(stack) >= 2 /\ Live(OperandA) /\ Live(OperandB))
          => stack' = Append(BelowOperands,
                             Bool(equal(heap, OperandB, OperandA)))]_vars

\* Every entry of the heap h is in the heap g as it was.
Keeps(g, h) ==
  /\ g.id_counter >= h.id_counter
  /\ \A id \in DOMAIN h.values :
       id \in DOMAIN g.values /\ g.values[id] = h.values[id]

\* C40: when interpret starts the run of a chunk it compiled, ip is 0 and
\* the stack is empty whatever the earlier calls left on it; the globals are
\* those of before the call, and the Heap is the one compile returned: every
\* entry of before the call as it was, with the strings of the new chunk.
C40_CleanRunState ==
  [][(Called /\ pc' = "running")
       => (/\ ip' = 0
           /\ stack' = <<>>
           /\ globals' = globals
           /\ heap' = compile(source', heap).heap
           /\ Keeps(heap', heap))]_vars

\* C40 witness: the third call of a session starts the run of `print x;` on
\* an empty stack, with the x of an earlier call in the globals and the
\* strings of the earlier chunks in the Heap.
C40_Witness ==
  /\ calls = MaxCalls
  /\ source = P_read
  /\ pc = "running"
  /\ ip = 0
  /\ stack = <<>>
  /\ <<"x">> \in DOMAIN globals
  /\ heap.id_counter > Len(chunk.constants)

====
